---- MODULE Spec2Model ----
(***************************************************************************)
(* The per-resource lifecycle of heat: Resource.create / update / delete / *)
(* destroy (heat/engine/resources/resource.py), the resource classes that  *)
(* plug their handle_* and check_*_complete hooks into it (quantum/*.py,   *)
(* server.py, instance.py, rackspace/cloud_server.py, rds.py), the         *)
(* database record and event log written by state_set, and the provider    *)
(* (nova server, quantum object) the handlers talk to.                     *)
(*                                                                         *)
(* One resource is driven by several callers (greenthreads).  A caller is  *)
(* switched only where a handler waits on the provider; everything between *)
(* two such waits is one step.                                             *)
(***************************************************************************)
EXTENDS Integers, Sequences, FiniteSets, TLC

VARIABLES
    kind,       \* the class of the resource
    env,        \* the deployment: what quantum() does, whether db_api can
                \* fail, who calls the resource and how often
    rsrc,       \* the Resource object: state, state_description, instance_id,
                \* id, t; trail is the states it went through in the last
                \* call, created whether it was CREATE_COMPLETE and has not
                \* been DELETE_COMPLETE since
    db,         \* the database: the resource row and the recorded events
    nova,       \* the provider's server: its status and the requests it got
    quantum,    \* the provider's network object
    call,       \* per caller: the operation in progress and its position
    last,       \* the call that ended last: what it was and what it returned
    nops,       \* operations invoked so far
    resources,  \* stack.resources: the template of each resource by name
    graph,      \* the dependency graph of the stack, once built
    order,      \* the batches the current run of the stack goes by
    states,     \* the state of each resource of the stack
    run,        \* the current run of the stack: its operation, the
                \* resources it began, in order, and those it completed
    runner,     \* a TaskRunner: the step function it wraps, how far it
                \* is, the calls made on it and what they did
    group,      \* a PollingTaskGroup: its members and how far they are
    replacement, \* the replacement of a resource of the stack by an
                \* update: the old and the new instance, who still refers
                \* to the old physical id, and the state changes in order
    adapter,    \* one operation of a nova adapter (Instance or Server) on
                \* its server: the handle_* call, the polls of check_*, the
                \* tasks of the cookie and the calls made, in order
    restarter,  \* a Restarter in its stack: its InstanceId, the resources
                \* of the stack, the signals it got and what they did
    clients     \* the client caches of an OpenStackClients object and of
                \* a Resource, and the clients constructed so far

stackvars == <<resources, graph, order, states, run>>

taskvars == <<runner, group, replacement, adapter, restarter, clients>>

vars == <<kind, env, rsrc, db, nova, quantum, call, last, nops, stackvars,
          taskvars>>

----------------------------------------------------------------------------
(* Bounds *)

(* Operations invoked on the resource in one run: by one caller at a     *)
(* time, and by concurrent callers.                                       *)
MaxOps == 3
MaxConcurrentOps == 2
MaxFaultyOps == 2

Callers == {"c1", "c2"}

----------------------------------------------------------------------------
(* Status strings, resource.py:75-89 *)

None == "None"

CREATE_IN_PROGRESS == "IN_PROGRESS"
CREATE_FAILED == "CREATE_FAILED"
CREATE_COMPLETE == "CREATE_COMPLETE"
DELETE_IN_PROGRESS == "DELETE_IN_PROGRESS"
DELETE_FAILED == "DELETE_FAILED"
DELETE_COMPLETE == "DELETE_COMPLETE"
UPDATE_IN_PROGRESS == "UPDATE_IN_PROGRESS"
UPDATE_FAILED == "UPDATE_FAILED"
UPDATE_COMPLETE == "UPDATE_COMPLETE"

UPDATE_REPLACE == "UPDATE_REPLACE"
UPDATE_NOT_IMPLEMENTED == "UPDATE_NOT_IMPLEMENTED"

States ==
    {None, CREATE_IN_PROGRESS, CREATE_FAILED, CREATE_COMPLETE,
     DELETE_IN_PROGRESS, DELETE_FAILED, DELETE_COMPLETE,
     UPDATE_IN_PROGRESS, UPDATE_FAILED, UPDATE_COMPLETE}

(* Messages returned to the caller *)
MsgCreateRequested == "Resource creation already requested"
MsgUpdateRequested == "Resource update already requested"
MsgNoSnippet == "Must specify json snippet for resource update!"
MsgDeleteInProgress == "Resource deletion already in progress"

(* state_set's default reason, resource.py:488 *)
StateChanged == "state changed"

----------------------------------------------------------------------------
(* Resource classes *)

QuantumKinds == {"Net"}
NovaKinds == {"Server", "Instance", "CloudServer"}
Kinds == {"GenericResource", "DBSecurityGroup"} \cup QuantumKinds \cup NovaKinds

(* The classes the registry knows, by declared type. *)
Registry ==
    ("OS::Nova::Server" :> "Server") @@ ("AWS::EC2::Instance" :> "Instance")
    @@ ("Rackspace::Cloud::Server" :> "CloudServer")
    @@ ("OS::Quantum::Net" :> "Net")
    @@ ("AWS::RDS::DBSecurityGroup" :> "DBSecurityGroup")

(* The declared types of resources; the last one is in no registry. *)
Types == DOMAIN Registry \cup {"Unknown::Type"}

(* register.get_class: the class of a type, or None. *)
get_class(type) == IF type \in DOMAIN Registry THEN Registry[type] ELSE None

(* Resource.__new__ falling back to a class that has a provider. *)
Resource__new__mutant(type) ==
    IF get_class(type) # None THEN get_class(type) ELSE "Net"

(* The class Resource(name, json, stack) makes an object of. *)
Resource__new__(type) ==
    IF get_class(type) # None THEN get_class(type) ELSE "GenericResource"

(* The templates a resource can be given.  "good" validates; "badvalue"   *)
(* holds a value its property schema rejects, so that assigning it raises *)
(* ValueError; "missing" lacks a Required property, which only            *)
(* properties.validate() reports.                                         *)
Templates == {"good", "badvalue", "missing"}

(* The templates a resource of kind k can be given: GenericResource has   *)
(* properties_schema = {}, which has no value to reject and no Required    *)
(* property to miss.                                                      *)
TemplatesOf(k) == IF k = "GenericResource" THEN {"good"} ELSE Templates

ErrBadValue == "ValueError: bad property value"
ErrMissing == "Property must be provided"

(* str(ex) of what a handler or the provider raises; may be empty. *)
HandlerErrors == {"provider error", ""}

(* What db_api does during one step: each of saving the resource row and *)
(* recording an event either works or raises (only where the deployment's *)
(* database can fail).                                                    *)
DbOk == [save |-> TRUE, event |-> TRUE, remove |-> TRUE]
DbOutcomes ==
    IF env.db = "faulty"
    THEN [save : BOOLEAN, event : BOOLEAN, remove : BOOLEAN]
    ELSE {DbOk}

ErrDb == "DB error"

Return(v) == <<"return", v>>
Raise(v) == <<"raise", v>>

----------------------------------------------------------------------------
(* Property handling *)

(* Resource.calculate_properties: assigns every template property to      *)
(* self.properties; the assignment raises ValueError on a rejected value.  *)
(* The result is the exception raised, or None.                            *)
calculate_properties(t) == IF t = "badvalue" THEN ErrBadValue ELSE None

(* properties.validate(): returns an error string, or None. *)
properties_validate(t) == IF t = "missing" THEN ErrMissing ELSE None

(* Resource.validate *)
validate(t) ==
    IF calculate_properties(t) # None
    THEN calculate_properties(t)
    ELSE properties_validate(t)

----------------------------------------------------------------------------
(* Persistence *)

NoRow == [state |-> "NoRow", state_description |-> "", nova_instance |-> None]

(* Resource._store: create the resource row; a DB error is logged. *)
_store(r, d, dbo) ==
    IF dbo.save
    THEN [rsrc |-> [r EXCEPT !.id = "id1"],
          db |-> [d EXCEPT !.resource =
                      [state |-> r.state, state_description |-> "",
                       nova_instance |-> r.instance_id]]]
    ELSE [rsrc |-> r, db |-> d]

(* _add_event with event_create outside a try block. *)
_add_event_mutant(r, d, new_state, reason, dbo) ==
    IF calculate_properties(r.t) # None
    THEN [db |-> d, exc |-> calculate_properties(r.t)]
    ELSE IF ~dbo.event THEN [db |-> d, exc |-> ErrDb]
    ELSE [db |-> [d EXCEPT !.events = Append(@,
                     [resource_status |-> new_state,
                      resource_status_reason |-> reason,
                      physical_resource_id |-> r.instance_id])],
          exc |-> None]

(* Resource._add_event: calculate_properties() is called outside the try, *)
(* so its ValueError leaves _add_event; a DB error is logged.              *)
_add_event(r, d, new_state, reason, dbo) ==
    IF calculate_properties(r.t) # None
    THEN [db |-> d, exc |-> calculate_properties(r.t)]
    ELSE [db |-> IF dbo.event
                 THEN [d EXCEPT !.events = Append(@,
                          [resource_status |-> new_state,
                           resource_status_reason |-> reason,
                           physical_resource_id |-> r.instance_id])]
                 ELSE d,
          exc |-> None]

(* Resource.state_set.  The result holds the resource, the database and   *)
(* the exception that left state_set (None if it returned).  Every        *)
(* assignment to self.state is noted in the trail and in created.         *)
state_set(r, d, new_state, reason, dbo) ==
    LET old_state == r.state
        r1 == [r EXCEPT !.state = new_state, !.state_description = reason,
                        !.trail = Append(@, new_state),
                        !.created = IF new_state = CREATE_COMPLETE THEN TRUE
                                    ELSE IF new_state = DELETE_COMPLETE
                                    THEN FALSE ELSE @]
        saved ==
            IF r1.id # None
            THEN [rsrc |-> r1,
                  db |-> IF dbo.save
                         THEN [d EXCEPT !.resource =
                                  [state |-> new_state,
                                   state_description |-> reason,
                                   nova_instance |-> r1.instance_id]]
                         ELSE d]
            ELSE IF new_state = CREATE_IN_PROGRESS
                 THEN _store(r1, d, dbo)
                 ELSE [rsrc |-> r1, db |-> d]
        ev == _add_event(saved.rsrc, saved.db, new_state, reason, dbo)
    IN  IF new_state # old_state
        THEN [rsrc |-> saved.rsrc, db |-> ev.db, exc |-> ev.exc]
        ELSE [rsrc |-> saved.rsrc, db |-> saved.db, exc |-> None]

(* Resource.instance_id_set: keep the physical id and save it to the row. *)
instance_id_set(r, d, inst, dbo) ==
    LET r1 == [r EXCEPT !.instance_id = inst]
    IN  [rsrc |-> r1,
         db |-> IF r1.id # None /\ dbo.save /\ d.resource # NoRow
                THEN [d EXCEPT !.resource.nova_instance = inst]
                ELSE d]

----------------------------------------------------------------------------
(* The provider *)

(* What self.quantum() does (resource.py:291-316).  __init__ never sets    *)
(* self._quantum, so with quantumclient importable the accessor raises     *)
(* AttributeError ("unset"); without it the accessor returns None          *)
(* ("absent"); "client" is a deployment whose accessor is replaced and     *)
(* returns a client, as test_quantum.py does.                              *)
QuantumEnvs == {"unset", "absent", "client"}

ErrNoQuantumAttr == "'Net' object has no attribute '_quantum'"
ErrNoneType == "'NoneType' object has no attribute"

(* Server statuses the provider reports; "absent" is a server that does   *)
(* not exist (servers.get and server.get raise NotFound).                 *)
ServerStatuses == {"BUILD", "BUILD(spawning)", "ACTIVE", "ERROR", "UNKNOWN"}

ErrNotFound == "NotFound"
ErrBuildFailed == "Build of server failed."
ErrUnexpected == "nova reported unexpected instance status"
ErrNoDeferredAttr == "object has no attribute '_deferred_server_statuses'"

(* server.status.split('(')[0] *)
short_server_status(status) ==
    IF status = "BUILD(spawning)" THEN "BUILD" ELSE status

(* nova_utils.deferred_server_statuses, as far as the provider of this    *)
(* model reports them.  SUSPENDED is one of them: check_suspend_complete   *)
(* returns server.status == 'SUSPENDED' for a status found in this list    *)
(* (instance.py:454-456, server.py:340-342).                               *)
deferred_server_statuses == {"BUILD", "SUSPENDED"}

----------------------------------------------------------------------------
(* Callers *)

Idle == [op |-> "none", pc |-> "idle", calls |-> {}, status |-> "absent",
         then |-> "none"]

(* Caller c invokes an operation. *)
Invoke(c) ==
    /\ c \in env.callers
    /\ call[c].pc = "idle"
    /\ nops < env.budget
    /\ nops' = nops + 1

(* The resource as an operation finds it: the trail starts anew. *)
Begin(r) == [r EXCEPT !.trail = <<r.state>>]

(* What a call ends with: the resource, the database, what the caller     *)
(* gets, and the exception its except clause caught (None if none).       *)
Result(r, d, ret) == [rsrc |-> r, db |-> d, ret |-> ret, exc |-> None]

(* The call op of caller c ends: calls are the handlers and provider      *)
(* calls it made, status the server status it saw last.                   *)
FinishWith(c, op, res, calls, status) ==
    /\ rsrc' = res.rsrc
    /\ db' = res.db
    /\ call' = [call EXCEPT ![c] = Idle]
    /\ last' = [op |-> op, ret |-> res.ret, exc |-> res.exc,
                calls |-> calls, status |-> status]

Finish(c, op, res, calls) == FinishWith(c, op, res, calls, call[c].status)

(* The call op of caller c waits on the provider at position pc. *)
Wait(c, op, pc, r, d, calls, status, then) ==
    /\ rsrc' = r
    /\ db' = d
    /\ call' = [call EXCEPT ![c] = [op |-> op, pc |-> pc, calls |-> calls,
                                    status |-> status, then |-> then]]
    /\ UNCHANGED last

----------------------------------------------------------------------------
(* Resource.create, resource.py:322-343 *)

(* create_except with the message of the exception left out of the       *)
(* state's reason.                                                        *)
create_except_mutant(r, d, msg, dbo) ==
    LET s == state_set(r, d, CREATE_FAILED, StateChanged, dbo)
    IN  [rsrc |-> s.rsrc, db |-> s.db, exc |-> msg,
         ret |-> IF s.exc # None THEN Raise(s.exc) ELSE Return(msg)]

(* The except branch: CREATE_FAILED with str(ex), which is also returned;  *)
(* an exception that leaves state_set leaves create().                     *)
create_except(r, d, msg, dbo) ==
    LET s == state_set(r, d, CREATE_FAILED, msg, dbo)
    IN  [rsrc |-> s.rsrc, db |-> s.db, exc |-> msg,
         ret |-> IF s.exc # None THEN Raise(s.exc) ELSE Return(msg)]

(* The else branch. *)
create_else(r, d, dbo) ==
    LET s == state_set(r, d, CREATE_COMPLETE, StateChanged, dbo)
    IN  Result(s.rsrc, s.db,
               IF s.exc # None THEN Raise(s.exc) ELSE Return(None))

(* The try block up to the call of handle_create.  The value returned by   *)
(* properties.validate() is dropped.                                       *)
create_try(r, d, dbo) ==
    IF calculate_properties(r.t) # None
    THEN [rsrc |-> r, db |-> d, exc |-> calculate_properties(r.t)]
    ELSE state_set(r, d, CREATE_IN_PROGRESS, StateChanged, dbo)

(* The guard of create(). *)
create_refused(state) == state \in {CREATE_IN_PROGRESS, CREATE_COMPLETE}

PhysicalId == "pid"

(* Resource.create up to the first wait on the provider.  handle_create   *)
(* of GenericResource only logs; Net.handle_create asks self.quantum()    *)
(* for the client and sends create_network; the handle_create of the nova *)
(* classes starts with lookups at nova.                                   *)
Create(c) ==
    /\ UNCHANGED <<stackvars, taskvars>>
    /\ kind # "DBSecurityGroup"
    /\ Invoke(c)
    /\ UNCHANGED <<kind, env, nova, quantum>>
    /\ \E dbo \in DbOutcomes :
        IF create_refused(rsrc.state)
        THEN Finish(c, "create",
                    Result(Begin(rsrc), db, Return(MsgCreateRequested)), {})
        ELSE LET a == create_try(Begin(rsrc), db, dbo)
             IN  IF a.exc # None
                 THEN Finish(c, "create",
                             create_except(a.rsrc, a.db, a.exc, dbo), {})
                 ELSE IF kind = "GenericResource"
                 THEN Finish(c, "create", create_else(a.rsrc, a.db, dbo),
                             {"handle_create"})
                 ELSE IF kind \in QuantumKinds /\ env.quantum = "unset"
                 THEN Finish(c, "create",
                             create_except(a.rsrc, a.db, ErrNoQuantumAttr, dbo),
                             {"handle_create"})
                 ELSE IF kind \in QuantumKinds /\ env.quantum = "absent"
                 THEN Finish(c, "create",
                             create_except(a.rsrc, a.db, ErrNoneType, dbo),
                             {"handle_create"})
                 ELSE Wait(c, "create", "handle_create", a.rsrc, a.db,
                           {"handle_create"}, "absent", "none")

(* Net.handle_create gets the provider's answer (net.py:42-43): the       *)
(* created network, whose id is kept, or an error.                        *)
NetCreateReturn(c) ==
    /\ UNCHANGED <<stackvars, taskvars>>
    /\ kind \in QuantumKinds
    /\ call[c].pc = "handle_create"
    /\ UNCHANGED <<kind, env, nova, nops>>
    /\ \E dbo \in DbOutcomes :
        \/ /\ quantum' = "present"
           /\ LET i == instance_id_set(rsrc, db, PhysicalId, dbo)
              IN  Finish(c, "create", create_else(i.rsrc, i.db, dbo),
                         call[c].calls \cup {"create_network"})
        \/ /\ UNCHANGED quantum
           /\ \E e \in HandlerErrors :
                Finish(c, "create", create_except(rsrc, db, e, dbo),
                       call[c].calls \cup {"create_network"})

(* handle_create of Server, Instance and CloudServer gets the provider's  *)
(* answers: a lookup or servers.create raises, or the server is created   *)
(* and its id is stored; the created server is the cookie that            *)
(* check_create_complete is polled with.                                  *)
NovaCreateReturn(c) ==
    /\ UNCHANGED <<stackvars, taskvars>>
    /\ kind \in NovaKinds
    /\ call[c].pc = "handle_create"
    /\ UNCHANGED <<kind, env, quantum, nops>>
    /\ \E dbo \in DbOutcomes :
        \/ /\ nova' = [status |-> "BUILD", deleting |-> FALSE]
           /\ LET i == instance_id_set(rsrc, db, PhysicalId, dbo)
              IN  Wait(c, "create", "check_create_complete", i.rsrc, i.db,
                       call[c].calls \cup {"servers.create"}, "BUILD", "none")
        \/ /\ UNCHANGED nova
           /\ \E e \in HandlerErrors :
                Finish(c, "create", create_except(rsrc, db, e, dbo),
                       call[c].calls)

----------------------------------------------------------------------------
(* check_create_complete *)

(* Server.check_create_complete, server.py:205-226, on the status the     *)
(* cookie holds after server.get().  On ACTIVE the method falls off its   *)
(* end and returns None.                                                  *)
Server_check_create_complete(status) ==
    IF short_server_status(status) \in deferred_server_statuses THEN "False"
    ELSE IF status = "ACTIVE" THEN "None"
    ELSE IF status = "ERROR" THEN "delete_server"
    ELSE "raise"

(* self._deferred_server_statuses, instance.py:309: neither Instance nor  *)
(* CloudServer defines the attribute, so reading it raises AttributeError.*)
Instance_deferred_server_statuses == [defined |-> FALSE, value |-> {}]

(* Instance._check_active, instance.py:300-328.  started is                *)
(* volume_attach.started().  A resource without Volumes has an empty       *)
(* attach group, which is done as soon as it is started.                   *)
Instance__check_active(status, started) ==
    IF ~started
    THEN IF ~Instance_deferred_server_statuses.defined THEN "AttributeError"
         ELSE IF short_server_status(status)
                    \in Instance_deferred_server_statuses.value THEN "False"
         ELSE IF status = "ACTIVE" THEN "True"
         ELSE IF status = "ERROR" THEN "delete_server"
         ELSE "raise"
    ELSE "True"

(* CloudServer.check_create_complete, cloud_server.py:363-381 (for a      *)
(* resource without user data).                                           *)
CloudServer_check_create_complete(status, started) ==
    IF Instance__check_active(status, started) = "False" THEN "False"
    ELSE Instance__check_active(status, started)

check_create_complete(k, status, started) ==
    IF k = "Server" THEN Server_check_create_complete(status)
    ELSE IF k = "Instance" THEN Instance__check_active(status, started)
    ELSE CloudServer_check_create_complete(status, started)

(* What the caller of check_create_complete does with its result: poll    *)
(* again until it is true.                                                *)
poll_again(result) == result \in {"False", "None"}

(* One poll of check_create_complete.  The cookie is refreshed with       *)
(* server.get() unless it already says ACTIVE; a server that is gone      *)
(* makes server.get() raise NotFound.  On ERROR the poll starts the       *)
(* deletion of the server and runs it before it raises.                   *)
CheckCreateComplete(c) ==
    /\ UNCHANGED <<stackvars, taskvars>>
    /\ kind \in NovaKinds
    /\ call[c].pc = "check_create_complete"
    /\ UNCHANGED <<kind, env, quantum, nops>>
    /\ LET got == call[c].status # "ACTIVE"
           gone == got /\ nova.status = "absent"
           status == IF got THEN nova.status ELSE call[c].status
           calls == call[c].calls \cup {"check_create_complete"}
                       \cup (IF got THEN {"server.get"} ELSE {})
           result == check_create_complete(kind, status, FALSE)
       IN  \E dbo \in DbOutcomes :
           IF gone
           THEN /\ FinishWith(c, "create",
                              create_except(rsrc, db, ErrNotFound, dbo),
                              calls, "absent")
                /\ UNCHANGED nova
           ELSE IF poll_again(result)
           THEN /\ Wait(c, "create", "check_create_complete", rsrc, db,
                        calls, status, "none")
                /\ UNCHANGED nova
           ELSE IF result = "True"
           THEN /\ FinishWith(c, "create", create_else(rsrc, db, dbo),
                              calls, status)
                /\ UNCHANGED nova
           ELSE IF result = "delete_server"
           THEN /\ Wait(c, "create", "delete_server", rsrc, db,
                        calls \cup {"server.delete"}, status, "build_failed")
                /\ nova' = [nova EXCEPT !.deleting = TRUE]
           ELSE /\ FinishWith(c, "create",
                              create_except(rsrc, db,
                                  IF result = "AttributeError"
                                  THEN ErrNoDeferredAttr ELSE ErrUnexpected,
                                  dbo),
                              calls, status)
                /\ UNCHANGED nova

----------------------------------------------------------------------------
(* Resource.delete, resource.py:397-419, and Resource.destroy, 421-442 *)

(* Python's truth value of what delete() returned. *)
truthy(v) == v \notin {None, ""}

(* delete_except forgetting the physical id on failure. *)
delete_except_mutant(r, d, msg, dbo) ==
    LET s == state_set([r EXCEPT !.instance_id = None], d, DELETE_FAILED,
                       msg, dbo)
    IN  [rsrc |-> s.rsrc, db |-> s.db, exc |-> msg,
         ret |-> IF s.exc # None THEN Raise(s.exc) ELSE Return(msg)]

delete_except(r, d, msg, dbo) ==
    LET s == state_set(r, d, DELETE_FAILED, msg, dbo)
    IN  [rsrc |-> s.rsrc, db |-> s.db, exc |-> msg,
         ret |-> IF s.exc # None THEN Raise(s.exc) ELSE Return(msg)]

(* The end of delete(), after the try. *)
delete_else(r, d, dbo) ==
    LET s == state_set(r, d, DELETE_COMPLETE, StateChanged, dbo)
    IN  Result(s.rsrc, s.db,
               IF s.exc # None THEN Raise(s.exc) ELSE Return(None))

(* delete() without its first guard. *)
delete_done_mutant(state) == FALSE

(* The guards of delete(): nothing to do, and refused. *)
delete_done(state) == state = DELETE_COMPLETE

delete_refused(state) == state = DELETE_IN_PROGRESS

(* handle_delete without the except clauses. *)
handle_delete_failure_mutant(e) == e

(* What leaves handle_delete when the provider says the object is not    *)
(* there (server.py:297-298, instance.py:405-406) or its delete call     *)
(* fails (net.py:52-53): the except clause passes, nothing leaves.       *)
handle_delete_failure(e) == None

(* handle_delete ended with the exception e, or returned (None). *)
delete_handled(r, d, e, dbo) ==
    IF e # None THEN delete_except(r, d, e, dbo) ELSE delete_else(r, d, dbo)

(* destroy() after its call of delete() ended as res. *)
destroy_after(res, dbo) ==
    IF res.ret[1] = "raise" \/ truthy(res.ret[2]) THEN res
    ELSE IF res.rsrc.id = None THEN [res EXCEPT !.ret = Return(None)]
    ELSE IF ~dbo.remove THEN [res EXCEPT !.ret = Return(ErrDb)]
    ELSE [res EXCEPT !.rsrc.id = None, !.db.resource = NoRow,
                     !.ret = Return(None)]

(* delete() of caller c ends as res; under destroy() the rest of          *)
(* destroy() follows.                                                     *)
DeleteFinish(c, op, res, calls, dbo) ==
    Finish(c, op, IF op = "destroy" THEN destroy_after(res, dbo) ELSE res,
           calls)

(* Resource.delete up to the first wait on the provider, called directly  *)
(* (op = "delete") or from destroy() (op = "destroy").  GenericResource   *)
(* has no handle_delete.  Net.handle_delete asks self.quantum() for the   *)
(* client outside its try block and sends delete_network inside it.       *)
(* handle_delete of the nova classes returns at once without a physical   *)
(* id and looks the server up otherwise.                                  *)
DeleteCall(c, op) ==
    /\ UNCHANGED <<stackvars, taskvars>>
    /\ kind # "DBSecurityGroup"
    /\ Invoke(c)
    /\ UNCHANGED <<kind, env, nova, quantum>>
    /\ \E dbo \in DbOutcomes :
        IF delete_done(rsrc.state)
        THEN DeleteFinish(c, op, Result(Begin(rsrc), db, Return(None)), {},
                          dbo)
        ELSE IF delete_refused(rsrc.state)
        THEN DeleteFinish(c, op,
                 Result(Begin(rsrc), db, Return(MsgDeleteInProgress)), {}, dbo)
        ELSE LET s == state_set(Begin(rsrc), db, DELETE_IN_PROGRESS,
                                StateChanged, dbo)
             IN  IF s.exc # None
                 THEN DeleteFinish(c, op,
                          Result(s.rsrc, s.db, Raise(s.exc)), {}, dbo)
                 ELSE IF kind = "GenericResource"
                 THEN DeleteFinish(c, op, delete_else(s.rsrc, s.db, dbo),
                                   {}, dbo)
                 ELSE IF kind \in QuantumKinds /\ env.quantum = "unset"
                 THEN DeleteFinish(c, op,
                          delete_except(s.rsrc, s.db, ErrNoQuantumAttr, dbo),
                          {"handle_delete"}, dbo)
                 ELSE IF kind \in QuantumKinds /\ env.quantum = "absent"
                 THEN DeleteFinish(c, op, delete_else(s.rsrc, s.db, dbo),
                                   {"handle_delete"}, dbo)
                 ELSE IF kind \in NovaKinds /\ s.rsrc.instance_id = None
                 THEN DeleteFinish(c, op, delete_else(s.rsrc, s.db, dbo),
                                   {"handle_delete"}, dbo)
                 ELSE Wait(c, op, "handle_delete", s.rsrc, s.db,
                           {"handle_delete"}, "absent", "none")

Delete(c) == DeleteCall(c, "delete")

Destroy(c) == DeleteCall(c, "destroy")

(* Net.handle_delete gets the provider's answer (net.py:50-53): the       *)
(* object is deleted, or the call fails, which is passed over.            *)
NetDeleteReturn(c) ==
    /\ UNCHANGED <<stackvars, taskvars>>
    /\ kind \in QuantumKinds
    /\ call[c].pc = "handle_delete"
    /\ UNCHANGED <<kind, env, nova, nops>>
    /\ \E dbo \in DbOutcomes :
        \/ /\ quantum = "present"
           /\ quantum' = "absent"
           /\ DeleteFinish(c, call[c].op, delete_else(rsrc, db, dbo),
                           call[c].calls \cup {"delete_network"}, dbo)
        \/ /\ UNCHANGED quantum
           /\ DeleteFinish(c, call[c].op,
                  delete_handled(rsrc, db, handle_delete_failure("failed"),
                                 dbo),
                  call[c].calls \cup {"delete_network", "failed"}, dbo)

(* handle_delete of Server and Instance gets the answer of servers.get    *)
(* (server.py:295-303, instance.py:403-412): NotFound is passed over and  *)
(* the physical id cleared; another error leaves handle_delete; a server  *)
(* that is found is deleted with the delete_server task.                  *)
NovaDeleteLookup(c) ==
    /\ UNCHANGED <<stackvars, taskvars>>
    /\ kind \in NovaKinds
    /\ call[c].pc = "handle_delete"
    /\ UNCHANGED <<kind, env, quantum, nops>>
    /\ \E dbo \in DbOutcomes :
        \/ /\ nova.status = "absent"
           /\ UNCHANGED nova
           /\ DeleteFinish(c, call[c].op,
                  IF handle_delete_failure(ErrNotFound) = None
                  THEN delete_else([rsrc EXCEPT !.instance_id = None], db,
                                   dbo)
                  ELSE delete_except(rsrc, db,
                                     handle_delete_failure(ErrNotFound), dbo),
                  call[c].calls \cup {"servers.get", "NotFound"}, dbo)
        \/ /\ nova.status # "absent"
           /\ nova' = [nova EXCEPT !.deleting = TRUE]
           /\ Wait(c, call[c].op, "delete_server", rsrc, db,
                   call[c].calls \cup {"servers.get", "server.delete"},
                   nova.status, "handle_delete")
        \/ /\ UNCHANGED nova
           /\ \E e \in HandlerErrors :
                DeleteFinish(c, call[c].op, delete_except(rsrc, db, e, dbo),
                             call[c].calls \cup {"servers.get"}, dbo)

(* The delete_server task, started with server.delete(), polls            *)
(* server.get() until the server is gone; its caller was blocked on it    *)
(* and goes on: check_create_complete raises the build failure,           *)
(* handle_delete clears the physical id and returns.                      *)
DeleteServerDone(c) ==
    /\ UNCHANGED <<stackvars, taskvars>>
    /\ call[c].pc = "delete_server"
    /\ nova.status = "absent"
    /\ UNCHANGED <<kind, env, nova, quantum, nops>>
    /\ \E dbo \in DbOutcomes :
        IF call[c].then = "build_failed"
        THEN Finish(c, "create", create_except(rsrc, db, ErrBuildFailed, dbo),
                    call[c].calls \cup {"deleted"})
        ELSE DeleteFinish(c, call[c].op,
                 delete_else([rsrc EXCEPT !.instance_id = None], db, dbo),
                 call[c].calls \cup {"deleted"}, dbo)

----------------------------------------------------------------------------
(* Resource.update, resource.py:345-377 *)

ErrNotImplemented == "Update not implemented for Resource"

(* The snippets update() can be called with; None stands for no snippet. *)
Snippets == TemplatesOf(kind) \cup {None}

update_refused(state) == state \in {CREATE_IN_PROGRESS, UPDATE_IN_PROGRESS}

update_except(r, d, msg, dbo) ==
    LET s == state_set(r, d, UPDATE_FAILED, msg, dbo)
    IN  [rsrc |-> s.rsrc, db |-> s.db, exc |-> msg,
         ret |-> IF s.exc # None THEN Raise(s.exc) ELSE Return(msg)]

(* update() that marks the resource UPDATE_COMPLETE whatever             *)
(* handle_update returned.                                                *)
update_else_mutant(r, d, result, dbo) ==
    LET s == state_set(r, d, UPDATE_COMPLETE, StateChanged, dbo)
    IN  Result(s.rsrc, s.db,
               IF s.exc # None THEN Raise(s.exc) ELSE Return(result))

(* The else branch: result is what handle_update returned. *)
update_else(r, d, result, dbo) ==
    IF result = UPDATE_REPLACE
    THEN Result(r, d, Return(result))
    ELSE LET s == state_set(r, d, UPDATE_COMPLETE, StateChanged, dbo)
         IN  Result(s.rsrc, s.db,
                    IF s.exc # None THEN Raise(s.exc) ELSE Return(result))

(* The try block up to the call of handle_update: the new template and    *)
(* its properties replace the old ones; the value returned by             *)
(* properties.validate() is dropped.                                      *)
update_try(r, d, json, dbo) ==
    LET s == state_set(r, d, UPDATE_IN_PROGRESS, StateChanged, dbo)
        r1 == [s.rsrc EXCEPT !.t = json]
    IN  IF s.exc # None THEN s
        ELSE [rsrc |-> r1, db |-> s.db, exc |-> calculate_properties(json)]

(* Resource.update up to the first wait on the provider.  handle_update   *)
(* of GenericResource only logs, the one of the quantum classes returns   *)
(* UPDATE_REPLACE, the one DBSecurityGroup inherits from Resource raises  *)
(* NotImplementedError, and the one of the nova classes asks nova.        *)
Update(c) ==
    /\ UNCHANGED <<stackvars, taskvars>>
    /\ Invoke(c)
    /\ UNCHANGED <<kind, env, nova, quantum>>
    /\ \E json \in Snippets, dbo \in DbOutcomes :
        IF update_refused(rsrc.state)
        THEN Finish(c, "update",
                    Result(Begin(rsrc), db, Return(MsgUpdateRequested)), {})
        ELSE IF json = None
        THEN Finish(c, "update",
                    Result(Begin(rsrc), db, Return(MsgNoSnippet)), {})
        ELSE LET a == update_try(Begin(rsrc), db, json, dbo)
             IN  IF a.exc # None
                 THEN Finish(c, "update",
                             update_except(a.rsrc, a.db, a.exc, dbo), {})
                 ELSE IF kind = "GenericResource"
                 THEN Finish(c, "update", update_else(a.rsrc, a.db, None, dbo),
                             {"handle_update"})
                 ELSE IF kind \in QuantumKinds
                 THEN Finish(c, "update",
                             update_else(a.rsrc, a.db, UPDATE_REPLACE, dbo),
                             {"handle_update"})
                 ELSE IF kind = "DBSecurityGroup"
                 THEN Finish(c, "update",
                             update_except(a.rsrc, a.db, ErrNotImplemented,
                                           dbo),
                             {"handle_update"})
                 ELSE Wait(c, "update", "handle_update", a.rsrc, a.db,
                           {"handle_update"}, "absent", "none")

(* handle_update of Server, Instance and CloudServer gets nova's answers  *)
(* (server.py:249-257, instance.py:341-349, cloud_server.py:399-434): it  *)
(* returns (True for CloudServer) or raises.                              *)
NovaUpdateReturn(c) ==
    /\ UNCHANGED <<stackvars, taskvars>>
    /\ kind \in NovaKinds
    /\ call[c].pc = "handle_update"
    /\ UNCHANGED <<kind, env, nova, quantum, nops>>
    /\ \E dbo \in DbOutcomes :
        \/ Finish(c, "update",
                  update_else(rsrc, db,
                      IF kind = "CloudServer" THEN "True" ELSE None, dbo),
                  call[c].calls)
        \/ \E e \in HandlerErrors :
             Finish(c, "update", update_except(rsrc, db, e, dbo),
                    call[c].calls)

----------------------------------------------------------------------------
(* DBSecurityGroup.create and DBSecurityGroup.delete, rds.py:37-58 *)

(* create(): the state is set to CREATE_IN_PROGRESS before the inherited  *)
(* create() is called, which therefore refuses; then CREATE_COMPLETE.     *)
DBSecurityGroup_create(r, d, dbo) ==
    IF r.state # None THEN Result(r, d, Return(None))
    ELSE LET s1 == state_set(r, d, CREATE_IN_PROGRESS, StateChanged, dbo)
             s2 == state_set(s1.rsrc, s1.db, CREATE_COMPLETE, StateChanged, dbo)
         IN  IF s1.exc # None
             THEN Result(s1.rsrc, s1.db, Raise(s1.exc))
             ELSE IF ~create_refused(s1.rsrc.state)
             THEN create_else(s1.rsrc, s1.db, dbo)
             ELSE Result(s2.rsrc, s2.db,
                         IF s2.exc # None THEN Raise(s2.exc) ELSE Return(None))

(* delete(): the state is set to DELETE_IN_PROGRESS before                *)
(* Resource.delete is called, which therefore refuses; then               *)
(* DELETE_COMPLETE.                                                       *)
DBSecurityGroup_delete(r, d, dbo) ==
    IF delete_refused(r.state) \/ delete_done(r.state)
    THEN Result(r, d, Return(None))
    ELSE LET s1 == state_set(r, d, DELETE_IN_PROGRESS, StateChanged, dbo)
             s2 == state_set(s1.rsrc, s1.db, DELETE_COMPLETE, StateChanged, dbo)
         IN  IF s1.exc # None
             THEN Result(s1.rsrc, s1.db, Raise(s1.exc))
             ELSE Result(s2.rsrc, s2.db,
                         IF s2.exc # None THEN Raise(s2.exc) ELSE Return(None))

DBSecurityGroupCreate(c) ==
    /\ UNCHANGED <<stackvars, taskvars>>
    /\ kind = "DBSecurityGroup"
    /\ Invoke(c)
    /\ UNCHANGED <<kind, env, nova, quantum>>
    /\ \E dbo \in DbOutcomes :
         Finish(c, "create", DBSecurityGroup_create(Begin(rsrc), db, dbo), {})

DBSecurityGroupDelete(c) ==
    /\ UNCHANGED <<stackvars, taskvars>>
    /\ kind = "DBSecurityGroup"
    /\ Invoke(c)
    /\ UNCHANGED <<kind, env, nova, quantum>>
    /\ \E dbo \in DbOutcomes, op \in {"delete", "destroy"} :
         DeleteFinish(c, op, DBSecurityGroup_delete(Begin(rsrc), db, dbo),
                      {}, dbo)

----------------------------------------------------------------------------
(* The provider's side *)

(* A server that is building gets on. *)
ServerProgress ==
    /\ UNCHANGED <<stackvars, taskvars>>
    /\ nova.status \in {"BUILD", "BUILD(spawning)"}
    /\ ~nova.deleting
    /\ \E st \in ServerStatuses \ {"BUILD", nova.status} :
         nova' = [nova EXCEPT !.status = st]
    /\ UNCHANGED <<kind, env, rsrc, db, quantum, call, last, nops>>

(* The server goes away: its deletion, asked for by the engine or by     *)
(* somebody else, is carried out.                                         *)
ServerGone ==
    /\ UNCHANGED <<stackvars, taskvars>>
    /\ nova.status # "absent"
    /\ nova' = [status |-> "absent", deleting |-> FALSE]
    /\ UNCHANGED <<kind, env, rsrc, db, quantum, call, last, nops>>

(* The network object goes away behind the engine's back. *)
QuantumGone ==
    /\ UNCHANGED <<stackvars, taskvars>>
    /\ quantum = "present"
    /\ quantum' = "absent"
    /\ UNCHANGED <<kind, env, rsrc, db, nova, call, last, nops>>

----------------------------------------------------------------------------

(* A resource that is looked at on its own, in no run of a stack. *)
NoStack ==
    /\ resources = << >>
    /\ graph = [nodes |-> {}, edges |-> {}]
    /\ order = << >>
    /\ states = << >>
    /\ run = [op |-> "none", status |-> "none", begun |-> << >>,
              done |-> {}]
    /\ runner = << >>
    /\ group = << >>
    /\ replacement = << >>
    /\ adapter = << >>
    /\ restarter = << >>
    /\ clients = << >>

(* A new resource (resource.py:111-133), not yet in the database, of any  *)
(* class and with any template, in a deployment e.                        *)
InitIn(e) ==
    /\ NoStack
    /\ kind \in Kinds
    /\ env \in [quantum : IF kind \in QuantumKinds THEN QuantumEnvs
                                                    ELSE {"unset"},
                 db : {e.db}, callers : {e.callers}, budget : {e.budget},
                 type : {ty \in Types : Resource__new__(ty) = kind}]
    /\ \E t \in TemplatesOf(kind) :
         rsrc = [state |-> None, state_description |-> "",
                 instance_id |-> None, id |-> None, t |-> t,
                 trail |-> <<None>>, created |-> FALSE]
    /\ db = [resource |-> NoRow, events |-> << >>]
    /\ nova = [status |-> "absent", deleting |-> FALSE]
    /\ quantum = "absent"
    /\ call = [c \in Callers |-> Idle]
    /\ last = [op |-> "none", ret |-> Return(None), exc |-> None,
               calls |-> {}, status |-> "absent"]
    /\ nops = 0

(* The operations of a resource are invoked one at a time, as the         *)
(* orchestrator of a stack does.                                          *)
Init == InitIn([db |-> "ok", callers |-> {"c1"}, budget |-> MaxOps])

(* Several callers invoke operations on the resource, and are switched    *)
(* where a handler waits on the provider.                                 *)
InitConcurrent ==
    InitIn([db |-> "ok", callers |-> Callers, budget |-> MaxConcurrentOps])

(* Operations invoked one at a time in a deployment whose database calls *)
(* can raise.                                                             *)
InitFaulty ==
    InitIn([db |-> "faulty", callers |-> {"c1"}, budget |-> MaxFaultyOps])

Next ==
    \/ \E c \in Callers : Create(c)
    \/ \E c \in Callers : NetCreateReturn(c)
    \/ \E c \in Callers : NovaCreateReturn(c)
    \/ \E c \in Callers : CheckCreateComplete(c)
    \/ \E c \in Callers : Delete(c)
    \/ \E c \in Callers : Destroy(c)
    \/ \E c \in Callers : NetDeleteReturn(c)
    \/ \E c \in Callers : NovaDeleteLookup(c)
    \/ \E c \in Callers : DeleteServerDone(c)
    \/ \E c \in Callers : Update(c)
    \/ \E c \in Callers : NovaUpdateReturn(c)
    \/ \E c \in Callers : DBSecurityGroupCreate(c)
    \/ \E c \in Callers : DBSecurityGroupDelete(c)
    \/ ServerProgress
    \/ ServerGone
    \/ QuantumGone

Spec == Init /\ [][Next]_vars

SpecConcurrent == InitConcurrent /\ [][Next]_vars

SpecFaulty == InitFaulty /\ [][Next]_vars

----------------------------------------------------------------------------
(* Properties *)

(* Nobody is inside an operation: the resource is as the call that ended  *)
(* last left it.                                                          *)
Quiet == \A c \in Callers : call[c].pc = "idle"

(* The step leaves the resource, its events and the provider alone. *)
NoEffect ==
    /\ rsrc' = [rsrc EXCEPT !.trail = rsrc'.trail]
    /\ UNCHANGED <<db, nova, quantum, call>>

(* The step ended a call that returned a non-empty message and invoked    *)
(* nothing.                                                               *)
Refused ==
    /\ last'.ret[1] = "return"
    /\ truthy(last'.ret[2])
    /\ last'.calls = {}

(* The states the last call of the resource set, in order. *)
Entered == [i \in 1..(Len(rsrc.trail) - 1) |-> rsrc.trail[i + 1]]

(* C1: create() invoked in CREATE_IN_PROGRESS, update() invoked in        *)
(* UPDATE_IN_PROGRESS and delete() invoked in DELETE_IN_PROGRESS each     *)
(* return a non-empty message, invoke no handler and leave the state, the *)
(* reason, the physical id and the events unchanged.                      *)
C1_InProgressIsRefused ==
    [][\A c \in Callers :
        /\ ((Create(c) \/ DBSecurityGroupCreate(c))
              /\ rsrc.state = CREATE_IN_PROGRESS) => (Refused /\ NoEffect)
        /\ (Update(c) /\ rsrc.state = UPDATE_IN_PROGRESS)
              => (Refused /\ NoEffect)
        /\ ((Delete(c) \/ (DBSecurityGroupDelete(c) /\ last'.op = "delete"))
              /\ rsrc.state = DELETE_IN_PROGRESS) => (Refused /\ NoEffect)
      ]_vars

(* C2: once the state is DELETE_COMPLETE no call of create(), update(),   *)
(* delete() or destroy() changes it.                                      *)
C2_DeleteCompleteIsTerminal ==
    [][rsrc.state = DELETE_COMPLETE => rsrc'.state = DELETE_COMPLETE]_vars

(* C3: under concurrent callers at most one of handle_create,             *)
(* handle_update and handle_delete of the resource is in progress.        *)
C3_OneHandlerAtATime ==
    Cardinality({c \in Callers : call[c].pc # "idle"}) <= 1

InProgressStates ==
    {CREATE_IN_PROGRESS, UPDATE_IN_PROGRESS, DELETE_IN_PROGRESS}

SettledStates ==
    {CREATE_COMPLETE, CREATE_FAILED, UPDATE_COMPLETE, UPDATE_FAILED,
     DELETE_COMPLETE, DELETE_FAILED}

(* The lifecycle graph's condition on entering state to from state from. *)
LifecycleEdge(from, to) ==
    /\ to \in {CREATE_COMPLETE, CREATE_FAILED} => from = CREATE_IN_PROGRESS
    /\ to \in {UPDATE_COMPLETE, UPDATE_FAILED} => from = UPDATE_IN_PROGRESS
    /\ to \in {DELETE_COMPLETE, DELETE_FAILED} => from = DELETE_IN_PROGRESS
    /\ to \in {UPDATE_IN_PROGRESS, DELETE_IN_PROGRESS}
         => from \in SettledStates

(* C4: every state change follows the lifecycle graph, and within one     *)
(* call the in-progress state and the terminal state are each entered at  *)
(* most once.                                                             *)
C4_LifecycleGraph ==
    /\ \A i \in 1..(Len(rsrc.trail) - 1) :
         rsrc.trail[i] # rsrc.trail[i + 1]
            => LifecycleEdge(rsrc.trail[i], rsrc.trail[i + 1])
    /\ \A st \in InProgressStates \cup SettledStates :
         Cardinality({i \in 1..(Len(rsrc.trail) - 1) :
                         rsrc.trail[i] # st /\ rsrc.trail[i + 1] = st}) <= 1

(* The last call was a create() whose handler raised, in handle_create   *)
(* or in a poll of check_create_complete.                                 *)
CreateHandlerRaised ==
    /\ Quiet
    /\ last.op = "create"
    /\ "handle_create" \in last.calls
    /\ last.exc # None

(* C5: a create() whose handler raised ends in CREATE_FAILED with the     *)
(* raised message as reason, returns that message, and did not pass       *)
(* through CREATE_COMPLETE.                                               *)
C5_CreateHandlerRaises ==
    CreateHandlerRaised =>
        /\ rsrc.state = CREATE_FAILED
        /\ rsrc.state_description = last.exc
        /\ last.ret = Return(last.exc)
        /\ \A i \in DOMAIN Entered : Entered[i] # CREATE_COMPLETE

(* A poll of check_create_complete raised after the server was created. *)
C5_Witness ==
    /\ CreateHandlerRaised
    /\ {"servers.create", "check_create_complete"} \subseteq last.calls
    /\ last.exc = ErrUnexpected
    /\ rsrc.state = CREATE_FAILED
    /\ Entered = <<CREATE_IN_PROGRESS, CREATE_FAILED>>
(* The last call was a create() or update() that was not turned away by  *)
(* its guards, so that it came to the validation of rsrc.t.               *)
ValidationAttempted ==
    /\ Quiet
    /\ last.op \in {"create", "update"}
    /\ last.ret \notin {Return(MsgCreateRequested),
                        Return(MsgUpdateRequested), Return(MsgNoSnippet)}

(* C6: when the validation of the resource's properties reports an error, *)
(* create() and update() invoke no handler and report the validation      *)
(* error to the caller.                                                   *)
C6_ValidationErrorSurfaced ==
    (ValidationAttempted /\ validate(rsrc.t) # None) =>
        /\ last.calls \cap {"handle_create", "handle_update"} = {}
        /\ last.ret[2] = validate(rsrc.t)

(* C7: a create stays in the polling of check_create_complete only while  *)
(* the status it saw is a deferred one, does not end on a poll that saw a *)
(* deferred status, and completes on the poll that sees ACTIVE.           *)
C7_CreatePollReady ==
    /\ \A c \in Callers :
         (call[c].pc = "check_create_complete"
            /\ "check_create_complete" \in call[c].calls)
         => short_server_status(call[c].status) \in deferred_server_statuses
    /\ (Quiet /\ last.op = "create"
          /\ "check_create_complete" \in last.calls)
         => /\ short_server_status(last.status) \notin deferred_server_statuses
            /\ last.status = "ACTIVE"
                 => (last.ret = Return(None) /\ rsrc.state = CREATE_COMPLETE)

(* C8: a create whose poll found the server in ERROR has started the      *)
(* server's deletion and seen it through before it fails with the build   *)
(* failure, and ends in CREATE_FAILED; on another unexpected status the   *)
(* poll raises and deletes nothing.                                       *)
C8_ErrorCleanupBeforeFailure ==
    (Quiet /\ last.op = "create" /\ "check_create_complete" \in last.calls)
    => /\ last.status = "ERROR"
            => /\ {"server.delete", "deleted"} \subseteq last.calls
               /\ last.exc = ErrBuildFailed
               /\ rsrc.state = CREATE_FAILED
       /\ last.status = "UNKNOWN"
            => /\ "server.delete" \notin last.calls
               /\ last.exc # None

(* The last call was a delete() or destroy() in which the provider did   *)
(* not find the object: servers.get raised NotFound, or the delete call   *)
(* of a quantum resource failed.                                          *)
DeleteFoundNothing ==
    /\ Quiet
    /\ last.op \in {"delete", "destroy"}
    /\ last.calls \cap {"NotFound", "failed"} # {}

(* C9: a delete() in which the provider object was not found ends in      *)
(* DELETE_COMPLETE and returns no error, and does not pass through        *)
(* DELETE_FAILED.                                                         *)
C9_DeleteToleratesGone ==
    DeleteFoundNothing =>
        /\ rsrc.state = DELETE_COMPLETE
        /\ last.ret = Return(None)
        /\ \A i \in DOMAIN Entered : Entered[i] # DELETE_FAILED

(* A server deleted behind the engine's back: delete() of a resource     *)
(* whose create made a server gets NotFound from servers.get.             *)
C9_Witness ==
    /\ DeleteFoundNothing
    /\ last.op = "delete"
    /\ last.calls = {"handle_delete", "servers.get", "NotFound"}
    /\ rsrc.trail = <<CREATE_FAILED, DELETE_IN_PROGRESS, DELETE_COMPLETE>>
    /\ rsrc.instance_id = None

(* C10: delete() on a resource that is DELETE_COMPLETE returns None,      *)
(* invokes no handler, makes no provider call, records no event and       *)
(* leaves the state, the reason and the physical id as they are.          *)
C10_DeleteIdempotent ==
    [][\A c \in Callers :
        ((Delete(c) \/ (DBSecurityGroupDelete(c) /\ last'.op = "delete"))
           /\ rsrc.state = DELETE_COMPLETE)
        => /\ last'.ret = Return(None)
           /\ last'.calls = {}
           /\ NoEffect
      ]_vars

(* A second delete() after one that deleted a created resource. *)
C10_Witness ==
    /\ Quiet
    /\ last.op = "delete"
    /\ last.ret = Return(None)
    /\ rsrc.trail = <<DELETE_COMPLETE>>
    /\ db.events[Len(db.events)].resource_status = DELETE_COMPLETE
    /\ nops = MaxOps
(* C11: in every state the physical id of a resource with a provider     *)
(* object is set if and only if the resource has reached CREATE_COMPLETE  *)
(* and has not reached DELETE_COMPLETE since.                             *)
C11_PhysicalIdIffCreated ==
    kind \in QuantumKinds \cup NovaKinds
        => ((rsrc.instance_id # None) <=> rsrc.created)
FailedStates == {CREATE_FAILED, UPDATE_FAILED, DELETE_FAILED}

(* The step ends a call, and nobody is inside a call after it. *)
CallEnded == (call' # call \/ nops' # nops) /\ Quiet'

(* The step ends a call that set a *_FAILED state and left it. *)
CallEndedFailed ==
    /\ CallEnded
    /\ Len(rsrc'.trail) > 1
    /\ rsrc'.state \in FailedStates

(* C12: a call that ends in a *_FAILED state leaves the failure message  *)
(* as the reason and keeps a physical id that was set before the failure, *)
(* and no step sets the state back to None.                               *)
C12_FailureKeepsReasonAndId ==
    [][/\ rsrc.state # None => rsrc'.state # None
       /\ CallEndedFailed =>
            /\ last'.exc # None
            /\ rsrc'.state_description = last'.exc
            /\ rsrc.instance_id # None
                 => rsrc'.instance_id = rsrc.instance_id
      ]_vars

(* A delete() that failed at the provider, of a resource whose create    *)
(* made a server: the id is there for the next delete().                  *)
C12_Witness ==
    /\ Quiet
    /\ last.op = "delete"
    /\ rsrc.trail = <<CREATE_FAILED, DELETE_IN_PROGRESS, DELETE_FAILED>>
    /\ rsrc.state_description = "provider error"
    /\ rsrc.instance_id = PhysicalId
(* The states the step set with state_set, in order. *)
StepStates ==
    IF nops' # nops
    THEN Tail(rsrc'.trail)
    ELSE SubSeq(rsrc'.trail, Len(rsrc.trail) + 1, Len(rsrc'.trail))

(* The state before the i-th state_set of the step. *)
StepBefore(i) == IF i = 1 THEN rsrc.state ELSE StepStates[i - 1]

(* The state changes of the step: the states set that differ from the    *)
(* state before.                                                          *)
StepChanges ==
    SelectSeq([i \in DOMAIN StepStates |->
                  [to |-> StepStates[i], changed |-> StepStates[i] # StepBefore(i)]],
              LAMBDA x : x.changed)

(* The events the step recorded. *)
StepEvents == SubSeq(db'.events, Len(db.events) + 1, Len(db'.events))

(* C13: every change of the state saves the new state, the reason and    *)
(* the physical id to the resource's row and records exactly one event    *)
(* for it, and a state_set that changes nothing records no event.         *)
C13_EveryTransitionPersisted ==
    [][/\ Len(StepEvents) = Len(StepChanges)
       /\ \A i \in DOMAIN StepChanges :
            StepEvents[i].resource_status = StepChanges[i].to
       /\ StepChanges # << >> =>
            db'.resource = [state |-> rsrc'.state,
                            state_description |-> rsrc'.state_description,
                            nova_instance |-> rsrc'.instance_id]
      ]_vars
(* What an operation leaves in memory and gives back: its result        *)
(* without the database and without the id of the row.                    *)
InMemory(res) ==
    [f \in DOMAIN res \ {"db"} |->
        IF f = "rsrc" THEN [res.rsrc EXCEPT !.id = None] ELSE res[f]]

(* The outcomes of saving the row, creating the row and recording an     *)
(* event.                                                                 *)
SaveOutcomes == {o \in DbOutcomes : o.remove}

(* The resource with and without a row of its own. *)
RowOrNot == {[rsrc EXCEPT !.id = None], [rsrc EXCEPT !.id = "id1"]}

(* A state in which a step of an operation can still be taken. *)
CanStep == ~Quiet \/ nops < env.budget

(* C14: whether saving the row, creating the row or recording an event   *)
(* raises, each part of create(), update(), delete() and destroy() that   *)
(* calls the database leaves the same state, reason and physical id in    *)
(* memory, lets the same exception out and returns the same value as      *)
(* when the database calls succeed.                                       *)
C14_PersistenceFailureIsHarmless ==
    CanStep =>
    /\ \A st \in States \ {None} :
         LET ok == InMemory(state_set(rsrc, db, st, StateChanged, DbOk))
         IN  \A o \in SaveOutcomes, r \in RowOrNot :
                InMemory(state_set(r, db, st, StateChanged, o)) = ok
    /\ LET ok == InMemory(instance_id_set(rsrc, db, PhysicalId, DbOk))
       IN  \A o \in SaveOutcomes, r \in RowOrNot :
              InMemory(instance_id_set(r, db, PhysicalId, o)) = ok
    /\ LET ok == InMemory(create_try(rsrc, db, DbOk))
       IN  \A o \in SaveOutcomes, r \in RowOrNot :
              InMemory(create_try(r, db, o)) = ok
    /\ LET ok == InMemory(create_else(rsrc, db, DbOk))
       IN  \A o \in SaveOutcomes, r \in RowOrNot :
              InMemory(create_else(r, db, o)) = ok
    /\ LET ok == InMemory(delete_else(rsrc, db, DbOk))
       IN  \A o \in SaveOutcomes, r \in RowOrNot :
              InMemory(delete_else(r, db, o)) = ok
    /\ \A e \in HandlerErrors :
         /\ LET ok == InMemory(create_except(rsrc, db, e, DbOk))
            IN  \A o \in SaveOutcomes, r \in RowOrNot :
                   InMemory(create_except(r, db, e, o)) = ok
         /\ LET ok == InMemory(update_except(rsrc, db, e, DbOk))
            IN  \A o \in SaveOutcomes, r \in RowOrNot :
                   InMemory(update_except(r, db, e, o)) = ok
         /\ LET ok == InMemory(delete_except(rsrc, db, e, DbOk))
            IN  \A o \in SaveOutcomes, r \in RowOrNot :
                   InMemory(delete_except(r, db, e, o)) = ok
    /\ \A json \in TemplatesOf(kind) :
         LET ok == InMemory(update_try(rsrc, db, json, DbOk))
         IN  \A o \in SaveOutcomes, r \in RowOrNot :
                InMemory(update_try(r, db, json, o)) = ok
    /\ \A result \in {None, UPDATE_REPLACE} :
         LET ok == InMemory(update_else(rsrc, db, result, DbOk))
         IN  \A o \in SaveOutcomes, r \in RowOrNot :
                InMemory(update_else(r, db, result, o)) = ok
    /\ LET ok == InMemory(destroy_after(delete_else(rsrc, db, DbOk), DbOk))
       IN  \A o \in SaveOutcomes, r \in RowOrNot :
              InMemory(destroy_after(delete_else(r, db, o), o)) = ok
    /\ LET ok == InMemory(DBSecurityGroup_create(rsrc, db, DbOk))
       IN  \A o \in SaveOutcomes, r \in RowOrNot :
              InMemory(DBSecurityGroup_create(r, db, o)) = ok
    /\ LET ok == InMemory(DBSecurityGroup_delete(rsrc, db, DbOk))
       IN  \A o \in SaveOutcomes, r \in RowOrNot :
              InMemory(DBSecurityGroup_delete(r, db, o)) = ok

(* A create() during which neither the row nor an event could be        *)
(* written, and which completed.                                          *)
C14_Witness ==
    /\ env.db = "faulty"
    /\ Quiet
    /\ last.op = "create"
    /\ last.ret = Return(None)
    /\ "handle_create" \in last.calls
    /\ rsrc.state = CREATE_COMPLETE
    /\ rsrc.id = None
    /\ db.events = << >>

(* The step ended an update() whose handle_update returned. *)
HandleUpdateReturned ==
    /\ CallEnded
    /\ last'.op = "update"
    /\ "handle_update" \in last'.calls
    /\ last'.exc = None

(* C15: an update() whose handle_update returned UPDATE_REPLACE, as the   *)
(* one of every quantum class does, returns UPDATE_REPLACE, sets neither  *)
(* UPDATE_COMPLETE nor UPDATE_FAILED and leaves the provider's objects    *)
(* alone; an update() whose handle_update returned anything else ends in  *)
(* UPDATE_COMPLETE.                                                       *)
C15_UpdateReplaceIsReturned ==
    [][ HandleUpdateReturned =>
          /\ kind \in QuantumKinds => last'.ret = Return(UPDATE_REPLACE)
          /\ IF last'.ret = Return(UPDATE_REPLACE)
             THEN /\ \A i \in DOMAIN Entered' :
                        Entered'[i] \notin {UPDATE_COMPLETE, UPDATE_FAILED}
                  /\ rsrc'.state \notin {UPDATE_COMPLETE, UPDATE_FAILED}
                  /\ UNCHANGED <<nova, quantum>>
             ELSE rsrc'.state = UPDATE_COMPLETE ]_vars

(* A created network whose update() returned UPDATE_REPLACE. *)
C15_Witness ==
    /\ Quiet
    /\ kind \in QuantumKinds
    /\ last.op = "update"
    /\ last.ret = Return(UPDATE_REPLACE)
    /\ rsrc.trail = <<CREATE_COMPLETE, UPDATE_IN_PROGRESS>>
    /\ rsrc.instance_id = PhysicalId
    /\ quantum = "present"

(* The step ended the call op of a resource of a type the registry does  *)
(* not know, other than an update() without a snippet.                     *)
UnknownTypeEnded(op) ==
    /\ get_class(env.type) = None
    /\ CallEnded
    /\ last'.op = op
    /\ last'.ret # Return(MsgNoSnippet)

(* C16: a resource whose type the registry does not know is a             *)
(* GenericResource, and its create(), update(json) and delete() return    *)
(* without raising, leave the providers alone and end in CREATE_COMPLETE,  *)
(* UPDATE_COMPLETE and DELETE_COMPLETE.                                   *)
C16_GenericResourceIsNoOp ==
    [][ /\ get_class(env.type) = None => kind = "GenericResource"
        /\ \A op \in {"create", "update", "delete"} :
             UnknownTypeEnded(op) => /\ last'.ret[1] = "return"
                                     /\ UNCHANGED <<nova, quantum>>
                                     /\ rsrc'.instance_id = None
        /\ UnknownTypeEnded("create") => rsrc'.state = CREATE_COMPLETE
        /\ UnknownTypeEnded("update") => rsrc'.state = UPDATE_COMPLETE
        /\ UnknownTypeEnded("delete") => rsrc'.state = DELETE_COMPLETE ]_vars

(* A GenericResource created, updated and deleted. *)
C16_Witness ==
    /\ env.type = "Unknown::Type"
    /\ kind = "GenericResource"
    /\ Quiet
    /\ last.op = "delete"
    /\ last.calls = {}
    /\ rsrc.trail = <<UPDATE_COMPLETE, DELETE_IN_PROGRESS, DELETE_COMPLETE>>
    /\ Len(db.events) = 6

----------------------------------------------------------------------------
(* The resources of a stack: their templates, the dependencies the        *)
(* templates declare, the order the dependencies give and the runs of the *)
(* stack over its resources.                                              *)

(* The names of the resources of the stack, in the order of the template. *)
Names == <<"A", "B", "C">>
NameSet == {Names[i] : i \in DOMAIN Names}

MaxDepth == 3

(* Template fragments: strings, mappings (a sequence of key and value     *)
(* pairs) and sequences.                                                  *)
Str(v) == [type |-> "str", s |-> v, items |-> << >>]
Dict(kvs) == [type |-> "dict", s |-> "", items |-> kvs]
List(vs) == [type |-> "list", s |-> "", items |-> vs]

(* The fragments of nesting depth d at most: a Ref and a DependsOn name a *)
(* resource of the stack; any other key, Fn::GetAtt among them, and any    *)
(* sequence holds a fragment.                                             *)
RECURSIVE Fragments(_)
Fragments(d) ==
    IF d = 0
    THEN {Str(n) : n \in NameSet \cup {"v"}}
    ELSE LET below == Fragments(d - 1)
         IN  below
             \cup {Dict(<< <<k, Str(n)>> >>) :
                       k \in {"Ref", "DependsOn"}, n \in NameSet}
             \cup {Dict(<< <<k, f>> >>) : k \in {"p", "Fn::GetAtt"},
                                         f \in below}
             \cup {List(<<f>>) : f \in below}

(* The templates of a resource: a type, maybe a DependsOn, and maybe      *)
(* properties.                                                            *)
Absent == Str(None)

Declared(depends, properties) ==
    Dict(<< <<"Type", Str("v")>> >>
         \o (IF depends = None THEN << >>
                               ELSE << <<"DependsOn", Str(depends)>> >>)
         \o (IF properties = Absent THEN << >>
                                    ELSE << <<"Properties", properties>> >>))

DeepTemplates ==
    {Declared(n, f) : n \in NameSet \cup {None},
                      f \in Fragments(MaxDepth) \cup {Absent}}

FlatTemplates ==
    {Declared(n, Absent) : n \in NameSet \cup {None}}
    \cup {Declared(Names[i], Dict(<< <<"p", Dict(<< <<"Ref", Str(Names[j])>> >>)>> >>)) :
              i \in DOMAIN Names, j \in DOMAIN Names}

(* Resource.strict_dependency, which no class overrides. *)
strict_dependency(target) == TRUE

(* Resource._add_dependencies that looks into mappings only. *)
RECURSIVE _add_dependencies_mutant(_, _)
_add_dependencies_mutant(self, fragment) ==
    IF fragment.type = "dict"
    THEN UNION {LET key == fragment.items[i][1]
                    value == fragment.items[i][2]
                IN  IF key \in {"DependsOn", "Ref"}
                    THEN IF key = "DependsOn" \/ strict_dependency(value.s)
                         THEN {<<self, value.s>>}
                         ELSE {}
                    ELSE IF key # "Fn::GetAtt"
                    THEN _add_dependencies_mutant(self, value)
                    ELSE {} : i \in DOMAIN fragment.items}
    ELSE {}

(* Resource._add_dependencies: the edges (self, target) the fragment      *)
(* adds to deps.                                                          *)
RECURSIVE _add_dependencies(_, _)
_add_dependencies(self, fragment) ==
    IF fragment.type = "dict"
    THEN UNION {LET key == fragment.items[i][1]
                    value == fragment.items[i][2]
                IN  IF key \in {"DependsOn", "Ref"}
                    THEN IF key = "DependsOn" \/ strict_dependency(value.s)
                         THEN {<<self, value.s>>}
                         ELSE {}
                    ELSE IF key # "Fn::GetAtt"
                    THEN _add_dependencies(self, value)
                    ELSE {} : i \in DOMAIN fragment.items}
    ELSE IF fragment.type = "list"
    THEN UNION {_add_dependencies(self, fragment.items[i]) :
                    i \in DOMAIN fragment.items}
    ELSE {}

(* Resource.add_dependencies: the edges of the template, and the resource *)
(* itself with no target.                                                 *)
add_dependencies(self, t) == _add_dependencies(self, t) \cup {<<self, None>>}

(* The graph of the stack: what every resource added to deps. *)
Dependencies(rs) ==
    LET deps == UNION {add_dependencies(n, rs[n]) : n \in DOMAIN rs}
    IN  [nodes |-> ({d[1] : d \in deps} \cup {d[2] : d \in deps}) \ {None},
         edges |-> {d \in deps : d[2] # None}]

NoGraph == [nodes |-> {}, edges |-> {}]

Reversed(edges) == {<<e[2], e[1]>> : e \in edges}

CycleError == "CycleError"

(* Batches that take a node before the nodes it requires. *)
RECURSIVE batches_mutant(_, _)
batches_mutant(left, edges) ==
    IF left = {} THEN [error |-> None, batches |-> << >>]
    ELSE LET batch == {n \in left :
                          \A e \in edges : e[2] = n => e[1] \notin left}
             rest == batches_mutant(left \ batch, edges)
         IN  IF batch = {} \/ rest.error # None
             THEN [error |-> CycleError, batches |-> << >>]
             ELSE [error |-> None, batches |-> <<batch>> \o rest.batches]

(* The batches of the nodes left: a batch is the nodes none of whose      *)
(* requirements is left; CycleError, and no batch, when nodes are left    *)
(* and the batch is empty.                                                *)
RECURSIVE batches(_, _)
batches(left, edges) ==
    IF left = {} THEN [error |-> None, batches |-> << >>]
    ELSE LET batch == {n \in left :
                          \A e \in edges : e[1] = n => e[2] \notin left}
             rest == batches(left \ batch, edges)
         IN  IF batch = {} \/ rest.error # None
             THEN [error |-> CycleError, batches |-> << >>]
             ELSE [error |-> None, batches |-> <<batch>> \o rest.batches]

topological_order(g) == batches(g.nodes, g.edges)

reverse_topological_order(g) == batches(g.nodes, Reversed(g.edges))

(* build() that does not look for a cycle. *)
build_mutant(rs) == [error |-> None, graph |-> Dependencies(rs)]

(* build(): the graph of the resources, or CycleError. *)
build(rs) ==
    LET g == Dependencies(rs)
    IN  IF topological_order(g).error # None
        THEN [error |-> CycleError, graph |-> NoGraph]
        ELSE [error |-> None, graph |-> g]

NoRun == [op |-> "none", status |-> "none", begun |-> << >>, done |-> {}]

(* A run that waits for nothing. *)
RequiredFirst_mutant(op, n) == {}

(* What the run of operation op waits for before it begins on n: the      *)
(* resources n requires (create), or the ones that require n (delete).    *)
RequiredFirst(op, n) ==
    IF op = "create" THEN {e[2] : e \in {d \in graph.edges : d[1] = n}}
                     ELSE {e[1] : e \in {d \in graph.edges : d[2] = n}}

InProgressOf(op) ==
    IF op = "create" THEN CREATE_IN_PROGRESS ELSE DELETE_IN_PROGRESS
CompleteOf(op) ==
    IF op = "create" THEN CREATE_COMPLETE ELSE DELETE_COMPLETE
FailedOf(op) ==
    IF op = "create" THEN CREATE_FAILED ELSE DELETE_FAILED

(* A run of the stack starts: the graph is built from the templates and   *)
(* the order of the run is taken from it; a cycle ends the run at once.   *)
Orchestrate(op) ==
    /\ resources # << >>
    /\ run.status \in {"none", "COMPLETE", "FAILED"}
    /\ op = (IF run.op = "none" THEN "create" ELSE "delete")
    /\ run.op # "delete"
    /\ LET b == build(resources)
       IN  IF b.error # None
           THEN /\ graph' = NoGraph
                /\ order' = << >>
                /\ run' = [NoRun EXCEPT !.op = op, !.status = b.error]
           ELSE /\ graph' = b.graph
                /\ order' = IF op = "create"
                            THEN topological_order(b.graph).batches
                            ELSE reverse_topological_order(b.graph).batches
                /\ run' = [NoRun EXCEPT !.op = op, !.status = "running"]
    /\ UNCHANGED <<resources, states>>
    /\ UNCHANGED <<kind, env, rsrc, db, nova, quantum, call, last, nops>>
    /\ UNCHANGED taskvars

(* The run begins its operation on a resource all of whose requirements   *)
(* it has completed.                                                      *)
BeginOp(n) ==
    /\ run.status = "running"
    /\ \A i \in DOMAIN run.begun : run.begun[i] # n
    /\ RequiredFirst(run.op, n) \subseteq run.done
    /\ states' = [states EXCEPT ![n] = InProgressOf(run.op)]
    /\ run' = [run EXCEPT !.begun = Append(@, n)]
    /\ UNCHANGED <<resources, graph, order>>
    /\ UNCHANGED <<kind, env, rsrc, db, nova, quantum, call, last, nops>>
    /\ UNCHANGED taskvars

(* The operation on a resource completes. *)
CompleteOp(n) ==
    /\ run.status = "running"
    /\ states[n] = InProgressOf(run.op)
    /\ states' = [states EXCEPT ![n] = CompleteOf(run.op)]
    /\ run' = [run EXCEPT !.done = @ \cup {n}]
    /\ UNCHANGED <<resources, graph, order>>
    /\ UNCHANGED <<kind, env, rsrc, db, nova, quantum, call, last, nops>>
    /\ UNCHANGED taskvars

(* A failure that fails every operation in progress with it. *)
FailOp_mutant(n) ==
    /\ run.status = "running"
    /\ states[n] = InProgressOf(run.op)
    /\ states' = [m \in DOMAIN states |->
                     IF states[m] = InProgressOf(run.op)
                     THEN FailedOf(run.op) ELSE states[m]]
    /\ UNCHANGED <<resources, graph, order, run>>
    /\ UNCHANGED <<kind, env, rsrc, db, nova, quantum, call, last, nops>>
    /\ UNCHANGED taskvars

(* The operation on a resource fails. *)
FailOp(n) ==
    /\ run.status = "running"
    /\ states[n] = InProgressOf(run.op)
    /\ states' = [states EXCEPT ![n] = FailedOf(run.op)]
    /\ UNCHANGED <<resources, graph, order, run>>
    /\ UNCHANGED <<kind, env, rsrc, db, nova, quantum, call, last, nops>>
    /\ UNCHANGED taskvars

(* The run ends when no operation is in progress and none can begin. *)
EndRun ==
    /\ run.status = "running"
    /\ \A n \in NameSet :
          /\ states[n] # InProgressOf(run.op)
          /\ \/ \E i \in DOMAIN run.begun : run.begun[i] = n
             \/ ~(RequiredFirst(run.op, n) \subseteq run.done)
    /\ run' = [run EXCEPT !.status = IF run.done = NameSet THEN "COMPLETE"
                                                            ELSE "FAILED"]
    /\ UNCHANGED <<resources, graph, order, states>>
    /\ UNCHANGED <<kind, env, rsrc, db, nova, quantum, call, last, nops>>
    /\ UNCHANGED taskvars

(* No resource is operated on its own. *)
NoResource ==
    /\ kind = "GenericResource"
    /\ env = [quantum |-> "unset", db |-> "ok", callers |-> {}, budget |-> 0,
              type |-> "Unknown::Type"]
    /\ rsrc = [state |-> None, state_description |-> "",
               instance_id |-> None, id |-> None, t |-> "good",
               trail |-> <<None>>, created |-> FALSE]
    /\ db = [resource |-> NoRow, events |-> << >>]
    /\ nova = [status |-> "absent", deleting |-> FALSE]
    /\ quantum = "absent"
    /\ call = [c \in Callers |-> Idle]
    /\ last = [op |-> "none", ret |-> Return(None), exc |-> None,
               calls |-> {}, status |-> "absent"]
    /\ nops = 0

(* Stacks of three resources: one resource with any template and two     *)
(* that refer to nothing.                                                 *)
DeepStacks ==
    {[n \in NameSet |-> IF n = Names[1] THEN t ELSE Declared(None, Absent)] :
         t \in DeepTemplates}

(* Stacks of three resources that each declare a dependency or refer to   *)
(* a resource.                                                            *)
FlatStacks == [NameSet -> FlatTemplates]

(* A stack that was just parsed. *)
InitStackIn(stacks) ==
    /\ resources \in stacks
    /\ graph = NoGraph
    /\ order = << >>
    /\ states = [n \in NameSet |-> None]
    /\ run = NoRun
    /\ NoResource
    /\ runner = << >>
    /\ group = << >>
    /\ replacement = << >>
    /\ adapter = << >>
    /\ restarter = << >>
    /\ clients = << >>

InitStack == InitStackIn(DeepStacks \cup FlatStacks)

InitStackFlat == InitStackIn(FlatStacks)

NextStack ==
    \/ \E op \in {"create", "delete"} : Orchestrate(op)
    \/ \E n \in NameSet : BeginOp(n)
    \/ \E n \in NameSet : CompleteOp(n)
    \/ \E n \in NameSet : FailOp(n)
    \/ EndRun

SpecStack == InitStack /\ [][NextStack]_vars

----------------------------------------------------------------------------
(* The dependencies of a stack *)

(* The strings of a fragment, each with the keys that lead to it; a step  *)
(* into a sequence is written "[]".                                       *)
RECURSIVE Leaves(_)
Leaves(f) ==
    IF f.type = "str" THEN {<< << >>, f.s >>}
    ELSE UNION {LET step == IF f.type = "dict" THEN f.items[i][1] ELSE "[]"
                    below == IF f.type = "dict" THEN f.items[i][2]
                                                ELSE f.items[i]
                IN  {<< <<step>> \o l[1], l[2] >> : l \in Leaves(below)} :
                   i \in DOMAIN f.items}

(* The template t refers to resource b by a DependsOn or a Ref that is    *)
(* not inside an Fn::GetAtt.                                              *)
RefersTo(t, b) ==
    \E l \in Leaves(t) :
        /\ l[2] = b
        /\ l[1] # << >>
        /\ l[1][Len(l[1])] \in {"DependsOn", "Ref"}
        /\ \A i \in DOMAIN l[1] : l[1][i] # "Fn::GetAtt"

(* C17: add_dependencies records the edge (a, b) for every resource a     *)
(* whose template refers to resource b by a DependsOn or by a Ref at any  *)
(* depth of mappings and sequences outside Fn::GetAtt, and records every  *)
(* resource; the graph built from the stack has these edges and nodes.    *)
C17_EveryReferenceIsAnEdge ==
    \A a \in DOMAIN resources :
        /\ <<a, None>> \in add_dependencies(a, resources[a])
        /\ graph # NoGraph => a \in graph.nodes
        /\ \A b \in NameSet :
              RefersTo(resources[a], b) =>
                  /\ <<a, b>> \in add_dependencies(a, resources[a])
                  /\ graph # NoGraph => <<a, b>> \in graph.edges

(* The graph of a stack whose resource A declares a dependency on B and   *)
(* refers to C from a sequence inside a mapping.                          *)
C17_Witness ==
    /\ resources # << >>
    /\ resources["A"]
          = Declared("B", Dict(<< <<"p", List(<<Dict(<< <<"Ref", Str("C")>> >>)>>)>> >>))
    /\ graph = [nodes |-> NameSet, edges |-> {<<"A", "B">>, <<"A", "C">>}]

(* The batch of the order that holds n; 0 if none does. *)
BatchOf(n) ==
    IF \E i \in DOMAIN order : n \in order[i]
    THEN CHOOSE i \in DOMAIN order : n \in order[i]
    ELSE 0

(* The pairs of a resource and a resource that has to come before it in   *)
(* the current run.                                                       *)
RunEdges ==
    IF run.op = "create" THEN graph.edges ELSE Reversed(graph.edges)

(* The pairs (a, c) with a path of edges from a to c. *)
RECURSIVE Paths(_, _)
Paths(edges, k) ==
    IF k = 0 THEN edges
    ELSE LET shorter == Paths(edges, k - 1)
         IN  shorter \cup {<<q[1][1], q[2][2]>> :
                             q \in {r \in shorter \X edges :
                                       r[1][2] = r[2][1]}}

HasCycle(edges) ==
    \E p \in Paths(edges, Cardinality(NameSet)) : p[1] = p[2]

(* C18: the order of a run over an acyclic graph is a sequence of batches *)
(* that holds every resource exactly once and every resource in a later   *)
(* batch than each resource that has to come before it, so that no two     *)
(* resources of a batch depend on each other; a create goes by the edges   *)
(* and a delete by the reversed edges.                                    *)
C18_BatchesAreATopologicalSort ==
    (run.op # "none" /\ ~HasCycle(Dependencies(resources).edges)) =>
        /\ graph = Dependencies(resources)
        /\ order # << >>
        /\ \A n \in NameSet :
              Cardinality({i \in DOMAIN order : n \in order[i]}) = 1
        /\ \A i \in DOMAIN order : order[i] # {}
        /\ \A e \in RunEdges : BatchOf(e[2]) < BatchOf(e[1])
        /\ \A i \in DOMAIN order : \A a, b \in order[i] :
              <<a, b>> \notin Paths(graph.edges, Cardinality(NameSet))

(* A delete run over a graph in which B and C require A. *)
C18_Witness ==
    /\ run.op = "delete"
    /\ graph.edges = {<<"B", "A">>, <<"C", "A">>}
    /\ order = <<{"B", "C"}, {"A"}>>

(* C19: when the references of the resources have a cycle, the build of   *)
(* the graph ends in CycleError, the run has no graph and no order, and   *)
(* it begins no operation on any resource.                                *)
C19_CycleIsAnError ==
    HasCycle(Dependencies(resources).edges) =>
        /\ build(resources) = [error |-> CycleError, graph |-> NoGraph]
        /\ run.op # "none" =>
              /\ run.status = CycleError
              /\ graph = NoGraph
              /\ order = << >>
              /\ run.begun = << >>
              /\ \A n \in NameSet : states[n] = None

(* A create run over a stack in which A and B depend on each other. *)
C19_Witness ==
    /\ run.op = "create"
    /\ run.status = CycleError
    /\ Dependencies(resources).edges = {<<"A", "B">>, <<"B", "A">>}

IsPrefix(a, b) == Len(a) <= Len(b) /\ a = SubSeq(b, 1, Len(a))

(* C20: a create run begins the creation of a resource only when every    *)
(* resource it depends on was completed in this run, and a delete run     *)
(* begins the deletion of a resource only when every resource that        *)
(* depends on it was deleted in this run; where C depends on B and B on   *)
(* A, creations begin in the order A, B, C and deletions in the order     *)
(* C, B, A.                                                               *)
C20_DependenciesFirst ==
    [][ /\ \A n \in DOMAIN states :
              /\ (states'[n] # states[n] /\ states'[n] = CREATE_IN_PROGRESS)
                    => \A e \in graph.edges :
                          e[1] = n => /\ states[e[2]] = CREATE_COMPLETE
                                      /\ e[2] \in run.done
              /\ (states'[n] # states[n] /\ states'[n] = DELETE_IN_PROGRESS)
                    => \A e \in graph.edges :
                          e[2] = n => /\ states[e[1]] = DELETE_COMPLETE
                                      /\ e[1] \in run.done
        /\ (graph'.edges = {<<"C", "B">>, <<"B", "A">>}) =>
              IsPrefix(run'.begun, IF run'.op = "create"
                                   THEN <<"A", "B", "C">>
                                   ELSE <<"C", "B", "A">>) ]_vars

(* The chain deleted after it was created. *)
C20_Witness ==
    /\ graph.edges = {<<"C", "B">>, <<"B", "A">>}
    /\ run.op = "delete"
    /\ run.status = "COMPLETE"
    /\ run.begun = <<"C", "B", "A">>
    /\ \A n \in NameSet : states[n] = DELETE_COMPLETE

(* The resources n depends on, directly or through other resources. *)
RequiredBy(n) ==
    {p[2] : p \in {q \in Paths(graph.edges, Cardinality(NameSet)) :
                      q[1] = n}}

(* The runs of a stack whose resources each declare a dependency or      *)
(* refer to a resource, in which every operation that began comes to an   *)
(* end, as the scheduler advances every task that is not done at each of  *)
(* its steps.                                                             *)
SpecStackFair ==
    /\ InitStackFlat
    /\ [][NextStack]_vars
    /\ \A n \in NameSet : WF_vars(CompleteOp(n) \/ FailOp(n))

(* C21: in a create run, the failure of a resource changes no other       *)
(* resource and does not end the run while another resource is in         *)
(* progress, so that every resource that was begun reaches                *)
(* CREATE_COMPLETE or CREATE_FAILED; and no resource that depends on a    *)
(* failed resource, directly or not, is ever begun.                       *)
C21_FailureBlocksOnlyDependents ==
    /\ [][ run.op = "create" =>
             /\ \A n \in DOMAIN states :
                   (states[n] # CREATE_FAILED /\ states'[n] = CREATE_FAILED)
                      => /\ \A m \in DOMAIN states \ {n} :
                               states'[m] = states[m]
                         /\ run' = run
             /\ run'.status \in {"COMPLETE", "FAILED"} =>
                   \A n \in DOMAIN states' : states'[n] # CREATE_IN_PROGRESS
             /\ \A n \in DOMAIN states' :
                   (\E i \in DOMAIN run'.begun : run'.begun[i] = n) =>
                       \A m \in RequiredBy(n)' : states'[m] = CREATE_COMPLETE
       ]_vars
    /\ \A n \in NameSet :
          (run.op = "create" /\ states[n] = CREATE_IN_PROGRESS)
             ~> (run.op = "create"
                 /\ states[n] \in {CREATE_COMPLETE, CREATE_FAILED})

(* A create run that ended: A failed, B, which was begun before A failed  *)
(* and depends on nothing, completed, and C, which depends on A, was      *)
(* never begun.                                                           *)
C21_Witness ==
    /\ run.op = "create"
    /\ run.status = "FAILED"
    /\ graph.edges = {<<"C", "A">>}
    /\ run.begun = <<"A", "B">>
    /\ states = [n \in NameSet |->
                    IF n = "A" THEN CREATE_FAILED
                    ELSE IF n = "B" THEN CREATE_COMPLETE ELSE None]

----------------------------------------------------------------------------
(* The task scheduler: a TaskRunner around a step function, and a         *)
(* PollingTaskGroup of tasks.                                             *)

MaxNotDone == 2
MaxCalls == 4
MaxMembers == 3

Cancelled == "Cancelled"
StepError == "step function raised"
AlreadyStarted == "already started"

(* A TaskRunner around a step function that answers "not done" k times    *)
(* and then "done", or raises at its invocation failat (0: never).        *)
(* invoked counts the invocations of the step function, calls the calls   *)
(* of start() and step(); raised is what the last call raised, started_   *)
(* twice whether start() was called on a started runner; pc, server and   *)
(* resource_id belong to the invocation in progress; during is where the  *)
(* runner was when it was cancelled.                                      *)
Task(k, failat) ==
    [k |-> k, failat |-> failat, started |-> FALSE, done |-> FALSE,
     error |-> None, cancelled |-> FALSE, invoked |-> 0, calls |-> 0,
     op |-> "none", raised |-> None, started_twice |-> FALSE,
     pc |-> "idle", server |-> FALSE, resource_id |-> None,
     during |-> "none"]

Plans == {Task(k, failat) : k \in 0..MaxNotDone, failat \in 0..(MaxNotDone + 1)}

(* The step function is invoked. *)
begin(r) == [r EXCEPT !.invoked = @ + 1]

(* A step function that answers "done" one invocation early. *)
finish_mutant(r) ==
    IF r.failat = r.invoked
    THEN [r EXCEPT !.error = StepError, !.raised = StepError]
    ELSE [r EXCEPT !.done = (r.invoked >= r.k), !.raised = None]

(* The invocation ends: the step function raised, answered "done" or      *)
(* answered "not done".                                                   *)
finish(r) ==
    IF r.failat = r.invoked
    THEN [r EXCEPT !.error = StepError, !.raised = StepError]
    ELSE [r EXCEPT !.done = (r.invoked > r.k), !.raised = None]

(* Whether the call op on the runner invokes the step function. *)
invokes(r, op) ==
    IF op = "start" THEN ~r.started
    ELSE ~r.done /\ r.error = None /\ ~r.cancelled

(* step() that invokes the step function whatever the runner's state. *)
refuse_mutant(r, op) == [r EXCEPT !.invoked = @ + 1, !.raised = None]

(* What a call that does not invoke the step function does: start() of a  *)
(* started runner fails, step() of a done or failed runner does nothing,  *)
(* step() of a cancelled runner raises Cancelled.                         *)
refuse(r, op) ==
    IF op = "start"
    THEN [r EXCEPT !.raised = AlreadyStarted, !.started_twice = TRUE]
    ELSE IF r.done \/ r.error # None THEN [r EXCEPT !.raised = None]
    ELSE [r EXCEPT !.error = Cancelled, !.raised = Cancelled]

(* start() and step() as a whole. *)
call_runner(r, op) ==
    LET c == [r EXCEPT !.calls = @ + 1, !.op = op]
    IN  IF invokes(r, op)
        THEN finish(begin([c EXCEPT !.started = TRUE]))
        ELSE refuse(c, op)

(* start() or step() is called on the runner; step() only on a started    *)
(* runner.  A call that invokes the step function stays in it.            *)
CallRunner(op) ==
    /\ runner # << >>
    /\ runner.pc = "idle"
    /\ runner.calls < MaxCalls
    /\ op = "step" => runner.started
    /\ LET c == [runner EXCEPT !.calls = @ + 1, !.op = op]
       IN  runner' = IF invokes(runner, op)
                     THEN begin([c EXCEPT !.started = TRUE, !.pc = op])
                     ELSE refuse(c, op)
    /\ UNCHANGED <<group, replacement, adapter, restarter, clients,
                 stackvars>>
    /\ UNCHANGED <<kind, env, rsrc, db, nova, quantum, call, last, nops>>

(* The first invocation of the step function asks the provider for a      *)
(* server, and the provider makes it.                                     *)
ServerCreated ==
    /\ runner # << >>
    /\ runner.pc # "idle"
    /\ runner.invoked = 1
    /\ runner.failat # 1
    /\ ~runner.server
    /\ runner' = [runner EXCEPT !.server = TRUE]
    /\ UNCHANGED <<group, replacement, adapter, restarter, clients,
                 stackvars>>
    /\ UNCHANGED <<kind, env, rsrc, db, nova, quantum, call, last, nops>>

(* The invocation in progress ends; the id of a server the provider made  *)
(* is stored before the step function is left.                            *)
StepReturns ==
    /\ runner # << >>
    /\ runner.pc # "idle"
    /\ (runner.invoked = 1 /\ runner.failat # 1) => runner.server
    /\ runner' = [finish(runner) EXCEPT
                     !.pc = "idle",
                     !.resource_id = IF runner.server THEN PhysicalId ELSE @]
    /\ UNCHANGED <<group, replacement, adapter, restarter, clients,
                 stackvars>>
    /\ UNCHANGED <<kind, env, rsrc, db, nova, quantum, call, last, nops>>

(* A cancellation that stops the invocation in progress. *)
Cancel_mutant ==
    /\ runner # << >>
    /\ runner.started
    /\ ~runner.cancelled
    /\ ~runner.done /\ runner.error = None
    /\ runner' = IF runner.pc = "idle"
                 THEN [runner EXCEPT !.cancelled = TRUE, !.during = "idle"]
                 ELSE [runner EXCEPT !.cancelled = TRUE, !.pc = "idle",
                                     !.during = runner.pc,
                                     !.error = Cancelled,
                                     !.raised = Cancelled]
    /\ UNCHANGED <<group, replacement, adapter, restarter, clients,
                 stackvars>>
    /\ UNCHANGED <<kind, env, rsrc, db, nova, quantum, call, last, nops>>

(* The runner is marked cancelled, between two calls or during one. *)
Cancel ==
    /\ runner # << >>
    /\ runner.started
    /\ ~runner.cancelled
    /\ ~runner.done /\ runner.error = None
    /\ runner' = [runner EXCEPT !.cancelled = TRUE, !.during = runner.pc]
    /\ UNCHANGED <<group, replacement, adapter, restarter, clients,
                 stackvars>>
    /\ UNCHANGED <<kind, env, rsrc, db, nova, quantum, call, last, nops>>

(* A new TaskRunner around any step function; no resource and no stack    *)
(* is operated on.                                                        *)
InitRunner ==
    /\ runner \in Plans
    /\ group = << >>
    /\ replacement = << >>
    /\ adapter = << >>
    /\ restarter = << >>
    /\ clients = << >>
    /\ resources = << >>
    /\ graph = NoGraph
    /\ order = << >>
    /\ states = << >>
    /\ run = NoRun
    /\ NoResource

NextRunner ==
    \/ \E op \in {"start", "step"} : CallRunner(op)
    \/ ServerCreated
    \/ StepReturns
    \/ Cancel

SpecRunner == InitRunner /\ [][NextRunner]_vars

(* C22: a TaskRunner around a step function that answers "not done"       *)
(* exactly k times before "done" needs exactly k + 1 calls of start() and *)
(* step() together: done() is false after each of the first k calls and  *)
(* true after call k + 1, which is also the last invocation of the step   *)
(* function, for every k >= 0.                                            *)
C22_DoneAfterKPlusOneCalls ==
    (/\ runner.failat = 0 \/ runner.failat > runner.k + 1
     /\ ~runner.cancelled
     /\ ~runner.started_twice
     /\ runner.pc = "idle")
    => /\ runner.calls <= runner.k => ~runner.done
       /\ runner.calls >= runner.k + 1 => runner.done
       /\ runner.invoked = IF runner.calls <= runner.k THEN runner.calls
                           ELSE runner.k + 1
       /\ runner.error = None

C22_Witness ==
    /\ runner.k = MaxNotDone
    /\ runner.failat = 0
    /\ runner.pc = "idle"
    /\ runner.calls = MaxNotDone + 1
    /\ runner.invoked = MaxNotDone + 1
    /\ runner.done
    /\ ~runner.cancelled

(* C23: a task never goes back.  start() on a started runner fails and    *)
(* changes nothing else; step() on a done or failed runner does not       *)
(* invoke the step function and changes nothing; a runner that is done    *)
(* stays done and one that failed stays failed with the same error.       *)
C23_TaskNeverGoesBack ==
    [][ /\ (/\ runner'.calls = runner.calls + 1
            /\ runner'.op = "start"
            /\ runner.started)
           => /\ runner'.raised = AlreadyStarted
              /\ runner' = [runner EXCEPT !.calls = @ + 1, !.op = "start",
                                          !.raised = AlreadyStarted,
                                          !.started_twice = TRUE]
        /\ (/\ runner'.calls = runner.calls + 1
            /\ runner'.op = "step"
            /\ runner.done \/ runner.error # None)
           => /\ runner'.invoked = runner.invoked
              /\ runner' = [runner EXCEPT !.calls = @ + 1, !.op = "step",
                                          !.raised = None]
        /\ runner.started => runner'.started
        /\ runner.done => runner'.done /\ runner'.error = None
        /\ runner.error # None
           => runner'.error = runner.error /\ ~runner'.done
        /\ runner'.invoked >= runner.invoked
      ]_vars

C23_Witness ==
    /\ runner.done
    /\ runner.started_twice
    /\ runner.op = "step"
    /\ runner.calls = 3
    /\ runner.invoked = 1

(* C25: cancellation is cooperative.  Marking a TaskRunner cancelled      *)
(* changes nothing else, so the invocation in progress runs to its end    *)
(* with the result it would have had; the next step() raises Cancelled    *)
(* without invoking the step function, which is never invoked again; and  *)
(* a server the provider made before the cancellation has its id stored   *)
(* on the resource when the step function is left.                        *)
C25_CancellationIsCooperative ==
    /\ [][ /\ (~runner.cancelled /\ runner'.cancelled)
              => runner' = [runner EXCEPT !.cancelled = TRUE,
                                          !.during = runner.pc]
           /\ (runner.cancelled /\ runner.pc # "idle" /\ runner'.pc = "idle")
              => /\ runner'.done = finish(runner).done
                 /\ runner'.error = finish(runner).error
                 /\ runner'.raised = finish(runner).raised
           /\ runner.cancelled => runner'.invoked = runner.invoked
           /\ (/\ runner.cancelled
               /\ runner'.calls = runner.calls + 1
               /\ runner'.op = "step"
               /\ ~runner.done /\ runner.error = None)
              => /\ runner'.raised = Cancelled
                 /\ runner'.error = Cancelled
                 /\ runner'.pc = "idle"
         ]_vars
    /\ [](runner.pc = "idle" /\ runner.server
          => runner.resource_id = PhysicalId)

C25_Witness ==
    /\ runner.cancelled
    /\ runner.during = "start"
    /\ runner.server
    /\ runner.resource_id = PhysicalId
    /\ runner.op = "step"
    /\ runner.raised = Cancelled
    /\ runner.invoked = 1

----------------------------------------------------------------------------
(* PollingTaskGroup: the members are run together, in their order.        *)

(* The members from i on after the call op (start or step) on each of     *)
(* them that is not done, up to the first one that fails.                 *)
RECURSIVE advance(_, _, _)
advance(members, i, op) ==
    IF i > Len(members) THEN members
    ELSE IF members[i].done THEN advance(members, i + 1, op)
    ELSE LET m == call_runner(members[i], op)
             ms == [members EXCEPT ![i] = m]
         IN  IF m.error # None THEN ms ELSE advance(ms, i + 1, op)

(* The error of the first member that failed, None if none did. *)
RECURSIVE first_error(_, _)
first_error(members, i) ==
    IF i > Len(members) THEN None
    ELSE IF members[i].error # None THEN members[i].error
    ELSE first_error(members, i + 1)

(* A group that does not notice the failure of a member. *)
call_group_mutant(g, op) ==
    IF g.done \/ g.error # None THEN [g EXCEPT !.calls = @ + 1]
    ELSE LET ms == advance(g.members, 1, op)
         IN  [g EXCEPT !.members = ms,
                       !.started = TRUE,
                       !.calls = @ + 1,
                       !.done = \A i \in DOMAIN ms : ms[i].done \/ ms[i].error # None]

(* start() or step() of the group: nothing once the group is done or      *)
(* failed; otherwise every member not yet done is advanced once, the      *)
(* group fails with the first member that fails and is done when every    *)
(* member is.                                                             *)
call_group(g, op) ==
    IF g.done \/ g.error # None THEN [g EXCEPT !.calls = @ + 1]
    ELSE LET ms == advance(g.members, 1, op)
         IN  [g EXCEPT !.members = ms,
                       !.started = TRUE,
                       !.calls = @ + 1,
                       !.error = first_error(ms, 1),
                       !.done = \A i \in DOMAIN ms : ms[i].done]

(* start() of a group that was not started. *)
GroupStart ==
    /\ group # << >>
    /\ ~group.started
    /\ group' = call_group(group, "start")
    /\ UNCHANGED <<runner, replacement, adapter, restarter, clients,
                 stackvars>>
    /\ UNCHANGED <<kind, env, rsrc, db, nova, quantum, call, last, nops>>

(* step() of a started group. *)
GroupStep ==
    /\ group # << >>
    /\ group.started
    /\ group.calls < MaxCalls
    /\ group' = call_group(group, "step")
    /\ UNCHANGED <<runner, replacement, adapter, restarter, clients,
                 stackvars>>
    /\ UNCHANGED <<kind, env, rsrc, db, nova, quantum, call, last, nops>>

(* A new group of one to MaxMembers tasks. *)
InitGroup ==
    /\ \E n \in 1..MaxMembers :
          \E members \in [1..n -> Plans] :
             group = [members |-> members, started |-> FALSE,
                      done |-> FALSE, error |-> None, calls |-> 0]
    /\ runner = << >>
    /\ replacement = << >>
    /\ adapter = << >>
    /\ restarter = << >>
    /\ clients = << >>
    /\ resources = << >>
    /\ graph = NoGraph
    /\ order = << >>
    /\ states = << >>
    /\ run = NoRun
    /\ NoResource

NextGroup == GroupStart \/ GroupStep

SpecGroup == InitGroup /\ [][NextGroup]_vars

(* The group can still be advanced. *)
GroupLive(g) == ~g.done /\ g.error = None

----------------------------------------------------------------------------
(* The update of a stack in which the update of one resource asks for its *)
(* replacement: the old instance is deleted and a new one created.        *)

New == "new"
Old == "old"

(* The resources that require n. *)
Dependents(n) == {e[1] : e \in {d \in graph.edges : d[2] = n}}

(* The stacks whose graph can be built, with the resources created so     *)
(* far: a resource is created only after everything it requires.          *)
CreatedStacks ==
    {st \in [rs : FlatStacks, created : SUBSET NameSet] :
        /\ build(st.rs).error = None
        /\ \A e \in build(st.rs).graph.edges :
              e[1] \in st.created /\ e[2] # None => e[2] \in st.created}

(* A created stack, before any update. *)
InitReplace ==
    /\ \E st \in CreatedStacks :
          /\ st.created # {}
          /\ resources = st.rs
          /\ graph = build(st.rs).graph
          /\ states = [n \in NameSet |-> IF n \in st.created
                                         THEN CREATE_COMPLETE ELSE None]
    /\ order = << >>
    /\ run = NoRun
    /\ replacement = << >>
    /\ adapter = << >>
    /\ restarter = << >>
    /\ clients = << >>
    /\ runner = << >>
    /\ group = << >>
    /\ NoResource

(* The replacement goes on; it stops at the first failure. *)
Replacing ==
    /\ replacement # << >>
    /\ replacement.old # DELETE_FAILED
    /\ replacement.new # CREATE_FAILED

Logged(who, state) == Append(replacement.log, <<who, state>>)

(* update() of the resource n returns "replacement required"; the         *)
(* created resources that require n refer to its physical id.             *)
UpdateReplace(n) ==
    /\ replacement = << >>
    /\ adapter = << >>
    /\ restarter = << >>
    /\ clients = << >>
    /\ states[n] = CREATE_COMPLETE
    /\ replacement' =
          [target |-> n, old |-> CREATE_COMPLETE, new |-> None,
           refs |-> {m \in Dependents(n) : states[m] = CREATE_COMPLETE},
           at_start |-> {m \in Dependents(n) : states[m] = CREATE_COMPLETE},
           log |-> << >>]
    /\ UNCHANGED <<runner, group, adapter, restarter, clients,
                 stackvars>>
    /\ UNCHANGED <<kind, env, rsrc, db, nova, quantum, call, last, nops>>

(* The creation of the new instance begins: after the old one is deleted, *)
(* or before that if the old one cannot be deleted yet.                   *)
CreateNew ==
    /\ Replacing
    /\ replacement.new = None
    /\ replacement.old = DELETE_COMPLETE \/ replacement.refs # {}
    /\ replacement' = [replacement EXCEPT
                          !.new = CREATE_IN_PROGRESS,
                          !.log = Logged(New, CREATE_IN_PROGRESS)]
    /\ UNCHANGED <<runner, group, adapter, restarter, clients,
                 stackvars>>
    /\ UNCHANGED <<kind, env, rsrc, db, nova, quantum, call, last, nops>>

(* The creation of the new instance ends. *)
NewCreated(state) ==
    /\ Replacing
    /\ replacement.new = CREATE_IN_PROGRESS
    /\ replacement' = [replacement EXCEPT !.new = state,
                                          !.log = Logged(New, state)]
    /\ UNCHANGED <<runner, group, adapter, restarter, clients,
                 stackvars>>
    /\ UNCHANGED <<kind, env, rsrc, db, nova, quantum, call, last, nops>>

(* A resource that requires the replaced one is updated to refer to the   *)
(* new instance, which is created before anything that depends on it.     *)
Repoint(m) ==
    /\ Replacing
    /\ m \in replacement.refs
    /\ replacement.new = CREATE_COMPLETE
    /\ replacement' = [replacement EXCEPT !.refs = @ \ {m}]
    /\ UNCHANGED <<runner, group, adapter, restarter, clients,
                 stackvars>>
    /\ UNCHANGED <<kind, env, rsrc, db, nova, quantum, call, last, nops>>

(* A deletion of the old instance that does not wait for the resources    *)
(* that refer to it.                                                      *)
DeleteOld_mutant ==
    /\ Replacing
    /\ replacement.old = CREATE_COMPLETE
    /\ replacement.new \in {None, CREATE_COMPLETE}
    /\ replacement' = [replacement EXCEPT
                          !.old = DELETE_IN_PROGRESS,
                          !.log = Logged(Old, DELETE_IN_PROGRESS)]
    /\ UNCHANGED <<runner, group, adapter, restarter, clients,
                 stackvars>>
    /\ UNCHANGED <<kind, env, rsrc, db, nova, quantum, call, last, nops>>

(* The deletion of the old instance begins, only after nothing still      *)
(* depends on it.                                                         *)
DeleteOld ==
    /\ Replacing
    /\ replacement.old = CREATE_COMPLETE
    /\ replacement.refs = {}
    /\ replacement.new \in {None, CREATE_COMPLETE}
    /\ replacement' = [replacement EXCEPT
                          !.old = DELETE_IN_PROGRESS,
                          !.log = Logged(Old, DELETE_IN_PROGRESS)]
    /\ UNCHANGED <<runner, group, adapter, restarter, clients,
                 stackvars>>
    /\ UNCHANGED <<kind, env, rsrc, db, nova, quantum, call, last, nops>>

(* The deletion of the old instance ends. *)
OldDeleted(state) ==
    /\ Replacing
    /\ replacement.old = DELETE_IN_PROGRESS
    /\ replacement' = [replacement EXCEPT !.old = state,
                                          !.log = Logged(Old, state)]
    /\ UNCHANGED <<runner, group, adapter, restarter, clients,
                 stackvars>>
    /\ UNCHANGED <<kind, env, rsrc, db, nova, quantum, call, last, nops>>

NextReplace ==
    \/ \E n \in NameSet : UpdateReplace(n)
    \/ CreateNew
    \/ \E state \in {CREATE_COMPLETE, CREATE_FAILED} : NewCreated(state)
    \/ \E m \in NameSet : Repoint(m)
    \/ DeleteOld
    \/ \E state \in {DELETE_COMPLETE, DELETE_FAILED} : OldDeleted(state)

SpecReplace == InitReplace /\ [][NextReplace]_vars

(* Where the state change is in the log of the replacement, 0 if nowhere. *)
At(who, state) ==
    LET is == {i \in DOMAIN replacement.log :
                  replacement.log[i] = <<who, state>>}
    IN  IF is = {} THEN 0 ELSE CHOOSE i \in is : TRUE

(* C26: when an update asks for the replacement of a resource, the new    *)
(* instance is CREATE_COMPLETE before the old one is DELETE_IN_PROGRESS   *)
(* if something else referred to the old physical id when the update      *)
(* started, and after it if nothing did.                                  *)
C26_ReplacementOrder ==
    replacement # << >>
    => /\ (replacement.at_start # {} /\ At(Old, DELETE_IN_PROGRESS) > 0)
          => /\ At(New, CREATE_COMPLETE) > 0
             /\ At(New, CREATE_COMPLETE) < At(Old, DELETE_IN_PROGRESS)
       /\ (replacement.at_start = {} /\ At(New, CREATE_COMPLETE) > 0)
          => /\ At(Old, DELETE_IN_PROGRESS) > 0
             /\ At(Old, DELETE_IN_PROGRESS) < At(New, CREATE_COMPLETE)

C26_Witness ==
    /\ replacement # << >>
    /\ replacement.at_start # {}
    /\ replacement.refs = {}
    /\ replacement.log = << <<New, CREATE_IN_PROGRESS>>,
                            <<New, CREATE_COMPLETE>>,
                            <<Old, DELETE_IN_PROGRESS>>,
                            <<Old, DELETE_COMPLETE>> >>

----------------------------------------------------------------------------
(* The template functions of a Quantum network.                           *)

InvalidTemplateAttribute == "InvalidTemplateAttribute"
AttributeKeys == {"Foo", "name", "id"}

(* unicode(x): the text of x. *)
unicode(x) == IF x = None THEN "None" ELSE x

(* A Ref that resolves to the id of the database row. *)
FnGetRefId_mutant(r) == unicode(r.id)

FnGetRefId(r) == unicode(r.instance_id)

FnGetAtt(r, key) == Raise(InvalidTemplateAttribute)

(* The last call was a create() that returned None without raising. *)
CreateSucceeded ==
    /\ Quiet
    /\ last.op = "create"
    /\ last.ret = Return(None)

(* C27: when the provider creates the network, create() of a Net returns  *)
(* None and leaves the resource CREATE_COMPLETE; after a create() that    *)
(* succeeded FnGetRefId() is exactly the id the provider returned and     *)
(* FnGetAtt raises InvalidTemplateAttribute for every key; the delete()   *)
(* that follows ends without raising.                                     *)
C27_NetCreateRefAndDelete ==
    /\ [](kind = "Net"
          => \A c \in Callers :
                call[c].pc = "handle_create"
                => \A dbo \in DbOutcomes :
                      LET i == instance_id_set(rsrc, db, PhysicalId, dbo)
                          res == create_else(i.rsrc, i.db, dbo)
                      IN  /\ res.ret = Return(None)
                          /\ res.rsrc.state = CREATE_COMPLETE
                          /\ FnGetRefId(res.rsrc) = PhysicalId)
    /\ []((kind = "Net" /\ CreateSucceeded)
          => /\ rsrc.state = CREATE_COMPLETE
             /\ FnGetRefId(rsrc) = PhysicalId
             /\ \A key \in AttributeKeys :
                   FnGetAtt(rsrc, key) = Raise(InvalidTemplateAttribute))
    /\ [][ (/\ kind = "Net"
            /\ last.op = "create" /\ last.ret = Return(None)
            /\ CallEnded
            /\ last'.op = "delete")
           => last'.ret[1] = "return" ]_vars

C27_Witness ==
    /\ kind = "Net"
    /\ Quiet
    /\ last.op = "delete"
    /\ last.ret = Return(None)
    /\ rsrc.state = DELETE_COMPLETE
    /\ rsrc.instance_id = PhysicalId
    /\ Len(db.events) = 4
    /\ db.events[2].resource_status = CREATE_COMPLETE
    /\ db.events[2].physical_resource_id = PhysicalId

(* C28: recording the event of a state change of a resource whose         *)
(* property values are rejected does not fail: every state change of the  *)
(* step records its event, and the call the step ends does not raise.     *)
C28_InvalidPropertiesStillRecorded ==
    [][ (StepChanges # << >> /\ calculate_properties(rsrc'.t) # None)
        => /\ Len(StepEvents) = Len(StepChanges)
           /\ \A i \in DOMAIN StepChanges :
                 StepEvents[i].resource_status = StepChanges[i].to
           /\ CallEnded => last'.ret[1] = "return"
      ]_vars

(* C29: for every resource class a call ends in CREATE_COMPLETE only      *)
(* after handle_create ran and returned without error in that call, ends  *)
(* in DELETE_COMPLETE from a created state only after handle_delete ran   *)
(* and returned without error in that call, and a create() or delete()    *)
(* whose handler raised ends in CREATE_FAILED or DELETE_FAILED.           *)
C29_CompleteOnlyThroughHandler ==
    [][ CallEnded
        => /\ (rsrc'.state = CREATE_COMPLETE /\ rsrc.state # CREATE_COMPLETE)
              => /\ "handle_create" \in last'.calls
                 /\ last'.exc = None
           /\ (/\ rsrc'.state = DELETE_COMPLETE
               /\ rsrc.state # DELETE_COMPLETE
               /\ rsrc.created
               /\ kind # "GenericResource")
              => /\ "handle_delete" \in last'.calls
                 /\ last'.exc = None
           /\ (last'.op \in {"create", "delete"} /\ last'.exc # None)
              => rsrc'.state \in {CREATE_FAILED, DELETE_FAILED}
      ]_vars

(* The state in which the operation ends when it succeeds. *)
CompleteState(op) ==
    IF op = "create" THEN CREATE_COMPLETE
    ELSE IF op = "update" THEN UPDATE_COMPLETE
    ELSE DELETE_COMPLETE

(* C30: create(), update(json) and delete() never raise to the caller; a  *)
(* call that set a *_FAILED state returns its reason; the call returns    *)
(* None exactly when the resource ended it in the matching *_COMPLETE     *)
(* state.                                                                 *)
C30_NeverRaises ==
    [][ (CallEnded /\ last'.op \in {"create", "update", "delete"})
        => /\ last'.ret[1] = "return"
           /\ (Len(rsrc'.trail) > 1 /\ rsrc'.state \in FailedStates)
              => last'.ret = Return(rsrc'.state_description)
           /\ last'.ret = Return(None)
              <=> rsrc'.state = CompleteState(last'.op)
      ]_vars


----------------------------------------------------------------------------
(* The nova adapters Instance and Server: one operation on the server,    *)
(* from its handle_* call through the polls of its check_* method.        *)

MaxPolls == 4

AdapterStatuses == {"BUILD", "ACTIVE", "SUSPENDED", "ERROR"}

ErrNoResourceId == "resource_id not set"
ErrNoCheckActive == "object has no attribute '_check_active'"
ErrNoAttachTask == "object has no attribute '_attach_volumes_task'"

(* The adapter did something: did is what the call in progress did, log   *)
(* what the operation did so far.                                         *)
Do(a, what) ==
    [a EXCEPT !.did = Append(@, what), !.log = Append(@, what)]

(* The call ends: it returns ret or raises it. *)
Returns(a, ret) == [a EXCEPT !.result = Return(ret)]
Raises(a, err) == [a EXCEPT !.result = Raise(err), !.pc = "ended"]

(* start() or step() of the runner of the volume tasks. *)
CallVolumes(a, op) ==
    Do([a EXCEPT !.volumes = call_runner(@, op)], "volumes." \o op)

(* start() or step() of the second runner of the cookie: the one around   *)
(* server.suspend, whose first invocation sends the request.              *)
CallSecond(a, op) ==
    LET b == Do([a EXCEPT !.second = call_runner(@, op)], "second." \o op)
    IN  IF op = "start" /\ a.op = "suspend" /\ b.second.raised = None
        THEN Do([b EXCEPT !.requested = "suspend"], "server.suspend")
        ELSE b

(* server.get(): the status of the server is read from the provider. *)
server_get(a) == Do([a EXCEPT !.status = a.provider], "server.get")

(* The end of check_suspend_complete, once the suspend runner is done     *)
(* (instance.py:449-463, server.py:335-348).                              *)
suspend_status(a) ==
    IF a.status = "SUSPENDED" THEN Returns(a, "True")
    ELSE LET b == server_get(a)
         IN  IF b.status \in deferred_server_statuses \cup {"ACTIVE"}
             THEN Returns(b, IF b.status = "SUSPENDED" THEN "True"
                             ELSE "False")
             ELSE Raises(b, ErrUnexpected)

(* The part of check_suspend_complete on the suspend runner. *)
suspend_second(a) ==
    LET b == IF ~a.second.started THEN CallSecond(a, "start") ELSE a
    IN  IF b.second.raised # None THEN Raises(b, b.second.raised)
        ELSE IF b.second.done THEN suspend_status(b)
        ELSE LET c == CallSecond(b, "step")
             IN  IF c.second.raised # None THEN Raises(c, c.second.raised)
                 ELSE Returns(c, "None")

(* A poll that starts the suspend runner without waiting for the volumes. *)
Instance_check_suspend_complete_mutant(a) ==
    LET b == IF ~a.volumes.started THEN CallVolumes(a, "start") ELSE a
    IN  IF b.volumes.raised # None THEN Raises(b, b.volumes.raised)
        ELSE suspend_second(b)

(* Instance.check_suspend_complete, instance.py:437-466. *)
Instance_check_suspend_complete(a) ==
    LET b == IF ~a.volumes.started THEN CallVolumes(a, "start") ELSE a
    IN  IF b.volumes.raised # None THEN Raises(b, b.volumes.raised)
        ELSE IF b.volumes.done THEN suspend_second(b)
        ELSE LET c == CallVolumes(b, "step")
             IN  IF c.volumes.raised # None THEN Raises(c, c.volumes.raised)
                 ELSE Returns(c, IF c.volumes.done THEN "True" ELSE "False")

(* Server.check_suspend_complete, server.py:327-350. *)
Server_check_suspend_complete(a) == suspend_second(a)

(* Instance._check_active with the cookie (server, volume_attach),        *)
(* instance.py:300-328.                                                   *)
Instance__check_active_cookie(a) ==
    IF ~a.volumes.started
    THEN LET b == IF a.status # "ACTIVE" THEN server_get(a) ELSE a
         IN  IF ~Instance_deferred_server_statuses.defined
             THEN Raises(b, ErrNoDeferredAttr)
             ELSE IF short_server_status(b.status)
                        \in Instance_deferred_server_statuses.value
             THEN Returns(b, "False")
             ELSE IF b.status = "ACTIVE"
             THEN LET c == CallVolumes(Do(b, "ACTIVE"), "start")
                  IN  IF c.volumes.raised # None
                      THEN Raises(c, c.volumes.raised)
                      ELSE Returns(c, IF c.volumes.done THEN "True"
                                      ELSE "False")
             ELSE IF b.status = "ERROR"
             THEN Raises(Do(b, "delete_server"), ErrBuildFailed)
             ELSE Raises(b, ErrUnexpected)
    ELSE LET c == CallVolumes(a, "step")
         IN  IF c.volumes.raised # None THEN Raises(c, c.volumes.raised)
             ELSE Returns(c, IF c.volumes.done THEN "True" ELSE "False")

(* check_resume_complete: both classes call self._check_active, which     *)
(* Server does not have (server.py:372-373, instance.py:488-489).         *)
check_resume_complete(a) ==
    IF a.cls = "Server" THEN Raises(a, ErrNoCheckActive)
    ELSE Instance__check_active_cookie(a)


(* TaskRunner.__call__ on the runner of the volume tasks: start(), then   *)
(* step() until the runner is done or raises.                             *)
RECURSIVE StepVolumes(_)
StepVolumes(a) ==
    LET b == CallVolumes(a, "step")
    IN  IF b.volumes.raised # None \/ b.volumes.done THEN b
        ELSE StepVolumes(b)

DriveVolumes(a) ==
    LET b == CallVolumes(a, "start")
    IN  IF b.volumes.raised # None \/ b.volumes.done THEN b
        ELSE StepVolumes(b)

(* TaskRunner.__call__ on the runner of nova_utils.delete_server. *)
RECURSIVE StepSecond(_)
StepSecond(a) ==
    LET b == CallSecond(a, "step")
    IN  IF b.second.raised # None \/ b.second.done THEN b
        ELSE StepSecond(b)

DriveSecond(a) ==
    LET b == CallSecond(a, "start")
    IN  IF b.second.raised # None \/ b.second.done THEN b
        ELSE StepSecond(b)

(* handle_delete that looks the server up before the volumes are         *)
(* detached.                                                              *)
handle_delete_mutant(a) ==
    IF a.resource_id = None THEN [Returns(a, "None") EXCEPT !.pc = "ended"]
    ELSE LET c == Do(a, "servers.get")
             b == IF a.cls = "Instance" THEN DriveVolumes(c) ELSE c
         IN  IF b.volumes.raised # None THEN Raises(b, b.volumes.raised)
             ELSE [Returns(b, "None") EXCEPT !.resource_id = None,
                                             !.pc = "ended"]

(* Instance.handle_delete (instance.py:394-412) and Server.handle_delete  *)
(* (server.py:288-303).                                                   *)
handle_delete(a) ==
    IF a.resource_id = None THEN [Returns(a, "None") EXCEPT !.pc = "ended"]
    ELSE LET b == IF a.cls = "Instance" THEN DriveVolumes(a) ELSE a
         IN  IF b.volumes.raised # None THEN Raises(b, b.volumes.raised)
             ELSE LET c == Do(b, "servers.get")
                  IN  IF c.provider = "absent"
                      THEN [Returns(c, "None") EXCEPT !.resource_id = None,
                                                      !.pc = "ended"]
                      ELSE LET d == DriveSecond(c)
                           IN  IF d.second.raised # None
                               THEN Raises(d, d.second.raised)
                               ELSE [Returns(d, "None") EXCEPT
                                        !.resource_id = None,
                                        !.provider = "absent",
                                        !.pc = "ended"]

(* The lookup of the server at the start of handle_suspend and            *)
(* handle_resume.                                                         *)
lookup(a) ==
    IF a.resource_id = None THEN Raises(a, ErrNoResourceId)
    ELSE LET b == Do(a, "servers.get")
         IN  IF b.provider = "absent" THEN Raises(b, ErrNotFound)
             ELSE [b EXCEPT !.status = b.provider]

(* handle_suspend, instance.py:414-435 and server.py:305-325. *)
handle_suspend(a) ==
    LET b == lookup(a)
    IN  IF b.pc = "ended" THEN b
        ELSE [Returns(b, "cookie") EXCEPT !.pc = "polling"]

(* handle_resume, instance.py:468-486 and server.py:352-370: the request  *)
(* is sent, then the cookie is built with self._attach_volumes_task(),    *)
(* which Server does not have.                                            *)
handle_resume(a) ==
    LET b == lookup(a)
    IN  IF b.pc = "ended" THEN b
        ELSE LET c == Do([b EXCEPT !.requested = "resume"], "server.resume")
             IN  IF a.cls = "Server" THEN Raises(c, ErrNoAttachTask)
                 ELSE [Returns(c, "cookie") EXCEPT !.pc = "polling"]

(* The end of Instance.handle_create: the server the provider made and    *)
(* the runner of the volume attachments (instance.py:286-287).            *)
handle_create_cookie(a) ==
    [Returns([a EXCEPT !.status = a.provider], "cookie") EXCEPT
        !.pc = "polling"]

(* The handle_* method of the operation. *)
handle(a) ==
    IF a.op = "create" THEN handle_create_cookie(a)
    ELSE IF a.op = "suspend" THEN handle_suspend(a)
    ELSE IF a.op = "resume" THEN handle_resume(a)
    ELSE handle_delete(a)

(* The check_* method of the operation. *)
check(a) ==
    IF a.op = "create" THEN Instance__check_active_cookie(a)
    ELSE IF a.op = "resume" THEN check_resume_complete(a)
    ELSE IF a.cls = "Instance" THEN Instance_check_suspend_complete(a)
    ELSE Server_check_suspend_complete(a)

(* The handle_* method is called. *)
Handle ==
    /\ adapter # << >>
    /\ adapter.pc = "new"
    /\ adapter' = handle(adapter)
    /\ UNCHANGED <<runner, group, replacement, restarter, clients,
                 stackvars>>
    /\ UNCHANGED <<kind, env, rsrc, db, nova, quantum, call, last, nops>>

(* The check_* method is called, until it returns true or raises. *)
Poll ==
    /\ adapter # << >>
    /\ adapter.pc = "polling"
    /\ adapter.polls < MaxPolls
    /\ LET r == check([adapter EXCEPT !.polls = @ + 1, !.did = << >>])
       IN  adapter' = IF r.result = Return("True")
                      THEN [r EXCEPT !.pc = "ended"] ELSE r
    /\ UNCHANGED <<runner, group, replacement, restarter, clients,
                 stackvars>>
    /\ UNCHANGED <<kind, env, rsrc, db, nova, quantum, call, last, nops>>

(* The provider changes the status of the server. *)
ProviderChanges ==
    /\ adapter # << >>
    /\ adapter.pc = "polling"
    /\ adapter.provider # "absent"
    /\ \E st \in AdapterStatuses \ {adapter.provider} :
          adapter' = [adapter EXCEPT !.provider = st]
    /\ UNCHANGED <<runner, group, replacement, restarter, clients,
                 stackvars>>
    /\ UNCHANGED <<kind, env, rsrc, db, nova, quantum, call, last, nops>>

(* The tasks the second runner of a cookie may wrap: server.suspend and   *)
(* nova_utils.delete_server.                                              *)
SecondPlans == {Task(k, failat) : k \in 0..1, failat \in 0..1}

(* An Instance or a Server before one operation; create is the end of     *)
(* Instance.handle_create, where the server exists.                       *)
InitAdapter ==
    /\ \E cls \in {"Instance", "Server"},
          op \in {"create", "suspend", "resume", "delete"},
          id \in {None, PhysicalId},
          st \in AdapterStatuses \cup {"absent"},
          volumes \in Plans, second \in SecondPlans :
          /\ op = "create"
             => cls = "Instance" /\ id = PhysicalId /\ st # "absent"
          /\ id = None => st = "absent"
          /\ adapter = [cls |-> cls, op |-> op, resource_id |-> id,
                        provider |-> st, status |-> None,
                        requested |-> "none",
                        volumes |-> volumes, second |-> second,
                        pc |-> "new", polls |-> 0,
                        result |-> Return(None),
                        did |-> << >>, log |-> << >>]
    /\ runner = << >>
    /\ group = << >>
    /\ replacement = << >>
    /\ restarter = << >>
    /\ clients = << >>
    /\ resources = << >>
    /\ graph = NoGraph
    /\ order = << >>
    /\ states = << >>
    /\ run = NoRun
    /\ NoResource

NextAdapter == Handle \/ Poll \/ ProviderChanges

SpecAdapter == InitAdapter /\ [][NextAdapter]_vars

(* C31: an update(json) that returns an error leaves the definition of    *)
(* the resource alone: a call that is refused, or that fails in the       *)
(* calculation of the properties, in validation or in handle_update, ends *)
(* with the template the resource had when the call began; only the state *)
(* and the reason change.  Stated for the calls that begin and end in one *)
(* step.                                                                  *)
C31_FailedUpdateKeepsDefinition ==
    [][ (/\ CallEnded
         /\ nops' # nops
         /\ last'.op = "update"
         /\ \/ last'.ret \in {Return(MsgUpdateRequested),
                              Return(MsgNoSnippet)}
            \/ rsrc'.state = UPDATE_FAILED)
        => rsrc'.t = rsrc.t ]_vars

(* C32: destroy() removes the row of the resource and clears its id only  *)
(* if delete() ended in DELETE_COMPLETE.  A destroy() that ends in any    *)
(* other state, whatever the message of the failure, reports the error,   *)
(* keeps the row and leaves id as it was; one that ends in                *)
(* DELETE_COMPLETE and returns None has cleared id and left no row, also  *)
(* when there was no row.                                                 *)
C32_DestroyOnlyAfterDeleteComplete ==
    [][ (CallEnded /\ last'.op = "destroy")
        => IF rsrc'.state = DELETE_COMPLETE
           THEN last'.ret = Return(None)
                => rsrc'.id = None /\ db'.resource = NoRow
           ELSE /\ last'.ret # Return(None)
                /\ rsrc'.id = rsrc.id
                /\ db'.resource = NoRow <=> db.resource = NoRow
      ]_vars

(* How often the operation did something. *)
Times(log, what) == Cardinality({i \in DOMAIN log : log[i] = what})

(* The step is a poll of check_create_complete or check_resume_complete   *)
(* of an Instance.                                                        *)
ActivePolled ==
    /\ adapter.cls = "Instance"
    /\ adapter.op \in {"create", "resume"}
    /\ adapter'.polls = adapter.polls + 1

C34_SuspendAfterDetach ==
    /\ []((adapter.cls = "Instance" /\ adapter.op = "suspend")
          => /\ adapter.second.started => adapter.volumes.done
             /\ Times(adapter.log, "volumes.start") <= 1
             /\ Times(adapter.log, "second.start") <= 1
             /\ Times(adapter.log, "server.suspend") <= 1)
    /\ [][ (/\ adapter.cls = "Instance"
            /\ adapter.op = "suspend"
            /\ adapter'.polls = adapter.polls + 1)
           => /\ Times(adapter'.did, "volumes.step")
                 + Times(adapter'.did, "second.step") <= 1
              /\ (~adapter.second.started /\ adapter'.second.started)
                 => /\ adapter'.volumes.done
                    /\ adapter'.volumes.error = None
         ]_vars

C34_Witness ==
    /\ adapter.cls = "Instance"
    /\ adapter.op = "suspend"
    /\ adapter.polls = 2
    /\ adapter.volumes.done
    /\ adapter.second.done
    /\ adapter.second.k = 1
    /\ adapter.log = <<"servers.get", "volumes.start", "second.start",
                       "server.suspend", "second.step", "server.get">>

(* The step is a poll of check_suspend_complete. *)
SuspendPolled ==
    /\ adapter.op = "suspend"
    /\ adapter'.polls = adapter.polls + 1

(* C35: check_suspend_complete of Instance and Server returns true only   *)
(* when the status of the server is SUSPENDED; a poll made after the      *)
(* suspend request returns false while the provider reports a deferred    *)
(* status or ACTIVE and true once it reports SUSPENDED, without raising;  *)
(* any other status makes the poll raise.                                 *)
C35_SuspendPoll ==
    [][ SuspendPolled
        => /\ adapter'.result = Return("True")
              => adapter'.status = "SUSPENDED"
           /\ (adapter.second.done /\ adapter.second.error = None)
              => adapter'.result =
                    IF adapter.provider = "SUSPENDED" THEN Return("True")
                    ELSE IF adapter.provider
                               \in deferred_server_statuses \cup {"ACTIVE"}
                    THEN Return("False")
                    ELSE Raise(ErrUnexpected)
      ]_vars

(* The operation is the resume of a Server. *)
ServerResume == adapter.cls = "Server" /\ adapter.op = "resume"

(* C36: handle_resume of a Server whose server exists sends               *)
(* server.resume() exactly once and returns a cookie that                 *)
(* check_resume_complete can poll; the polls return false until the       *)
(* server is ACTIVE and then true; without resource_id, or when the       *)
(* server is not found, handle_resume raises and server.resume() is never *)
(* sent.                                                                  *)
C36_ServerResume ==
    /\ [][ (ServerResume /\ adapter.pc = "new")
           => IF adapter.resource_id = None \/ adapter.provider = "absent"
              THEN /\ adapter'.result[1] = "raise"
                   /\ Times(adapter'.log, "server.resume") = 0
              ELSE /\ adapter'.result = Return("cookie")
                   /\ Times(adapter'.log, "server.resume") = 1 ]_vars
    /\ [][ (ServerResume /\ adapter'.polls = adapter.polls + 1)
           => adapter'.result =
                 IF adapter.provider = "ACTIVE" /\ adapter'.volumes.done
                 THEN Return("True") ELSE Return("False") ]_vars
    /\ [](ServerResume => Times(adapter.log, "server.resume") <= 1)

(* Where the operation first and last did something whose name begins     *)
(* with the prefix, 0 if it never did.                                    *)
Places(log, prefix) ==
    {i \in DOMAIN log :
        /\ Len(log[i]) >= Len(prefix)
        /\ SubSeq(log[i], 1, Len(prefix)) = prefix}

(* The step is handle_delete of an Instance. *)
InstanceDeleted ==
    /\ adapter.cls = "Instance"
    /\ adapter.op = "delete"
    /\ adapter.pc = "new"

(* C37: handle_delete of an Instance without resource_id makes no call;   *)
(* otherwise the runner of the volume detachment is driven to its end     *)
(* before the server is looked up, the deletion of the server is driven   *)
(* to its end before handle_delete returns, and after a handle_delete     *)
(* that returned resource_id is None.                                     *)
C37_InstanceDeleteOrder ==
    [][ InstanceDeleted
        => LET log == adapter'.log
           IN  IF adapter.resource_id = None
               THEN log = << >> /\ adapter'.result = Return("None")
               ELSE /\ \A i \in Places(log, "volumes"),
                          j \in Places(log, "servers.get") : i < j
                    /\ \A j \in Places(log, "servers.get"),
                          l \in Places(log, "second") : j < l
                    /\ Places(log, "servers.get") # {}
                       => adapter'.volumes.done
                    /\ adapter'.result[1] = "return"
                       => /\ adapter'.resource_id = None
                          /\ adapter'.volumes.done
                          /\ Places(log, "servers.get") # {}
                          /\ adapter.provider # "absent"
                             => /\ adapter'.second.done
                                /\ adapter'.provider = "absent"
      ]_vars

C37_Witness ==
    /\ adapter.cls = "Instance"
    /\ adapter.op = "delete"
    /\ adapter.pc = "ended"
    /\ adapter.result = Return("None")
    /\ adapter.resource_id = None
    /\ adapter.provider = "absent"
    /\ adapter.log = <<"volumes.start", "volumes.step", "volumes.step",
                       "servers.get", "second.start", "second.step">>

(* ---------------------------------------------------------------------- *)
(* The Restarter (instance.py:32-77): a resource that is signalled with   *)
(* the details of an alarm and has the stack restart the resource whose   *)
(* physical id is its InstanceId property.                                *)

MaxSignals == 2
MaxResources == 2

LowerCase == "abcdefghijklmnopqrstuvwxyz"
UpperCase == "ABCDEFGHIJKLMNOPQRSTUVWXYZ"

(* str.lower() of one character. *)
lower_char(c) ==
    IF \E i \in 1..Len(UpperCase) : SubSeq(UpperCase, i, i) = c
    THEN LET i == CHOOSE i \in 1..Len(UpperCase) : SubSeq(UpperCase, i, i) = c
         IN  SubSeq(LowerCase, i, i)
    ELSE c

(* A lower() that leaves the string as it is. *)
lower_mutant(str) == str

RECURSIVE lower(_)
(* str.lower(), instance.py:54. *)
lower(str) ==
    IF str = "" THEN ""
    ELSE lower_char(SubSeq(str, 1, 1)) \o lower(SubSeq(str, 2, Len(str)))

(* The details handle_signal may get: None, a dict without a state, a     *)
(* dict with a state.                                                     *)
AlarmStates == {"alarm", "ALARM", "Alarm", "ok", "NORMAL", "alarmed"}
NoDetails == [given |-> FALSE, has_state |-> FALSE, state |-> ""]
Details ==
    {NoDetails, [given |-> TRUE, has_state |-> FALSE, state |-> ""]}
    \cup {[given |-> TRUE, has_state |-> TRUE, state |-> st] :
             st \in AlarmStates}

(* details.get('state', 'alarm'), instance.py:54. *)
details_get(details) ==
    IF details.has_state THEN details.state ELSE "alarm"

(* _find_resource, instance.py:40-48: the first resource of the stack,    *)
(* in the order of its iteration, with that physical id; 0 for None.      *)
_find_resource(stack, resource_id) ==
    IF \E i \in DOMAIN stack : stack[i].resource_id = resource_id
    THEN CHOOSE i \in DOMAIN stack :
            /\ stack[i].resource_id = resource_id
            /\ \A j \in 1..(i - 1) : stack[j].resource_id # resource_id
    ELSE 0

(* handle_signal, instance.py:50-69: the names stack.restart_resource is  *)
(* called with, in order.                                                 *)
handle_signal(r, details) ==
    LET alarm_state == IF ~details.given THEN "alarm"
                       ELSE lower(details_get(details))
        victim == _find_resource(r.stack, r.InstanceId)
    IN  IF alarm_state # "alarm" THEN << >>
        ELSE IF victim = 0 THEN << >>
        ELSE <<r.stack[victim].name>>

(* The Restarter is signalled. *)
Signal ==
    /\ restarter # << >>
    /\ restarter.signals < MaxSignals
    /\ \E details \in Details :
          restarter' = [restarter EXCEPT
                           !.signals = @ + 1,
                           !.details = details,
                           !.restarted = handle_signal(restarter, details),
                           !.raised = None]
    /\ UNCHANGED <<runner, group, replacement, adapter, clients, stackvars>>
    /\ UNCHANGED <<kind, env, rsrc, db, nova, quantum, call, last, nops>>

(* The stacks a Restarter may be in: up to MaxResources resources, each   *)
(* with a physical id or none yet.                                        *)
RestarterStacks ==
    UNION {[1..n -> {[name |-> nm, resource_id |-> id] :
                        nm \in {"r1", "r2"}, id \in {None, "i-1", "i-2"}}] :
              n \in 0..MaxResources}

InitRestarter ==
    /\ \E InstanceId \in {"i-1", "i-2"}, stack \in RestarterStacks :
          /\ \A i, j \in DOMAIN stack : stack[i].name = stack[j].name => i = j
          /\ restarter = [InstanceId |-> InstanceId, stack |-> stack,
                          signals |-> 0, details |-> NoDetails,
                          restarted |-> << >>, raised |-> None]
    /\ runner = << >>
    /\ group = << >>
    /\ replacement = << >>
    /\ adapter = << >>
    /\ clients = << >>
    /\ resources = << >>
    /\ graph = NoGraph
    /\ order = << >>
    /\ states = << >>
    /\ run = NoRun
    /\ NoResource

NextRestarter == Signal

SpecRestarter == InitRestarter /\ [][NextRestarter]_vars

(* The signalled state is 'alarm': there are no details, they have no     *)
(* state, or their state is 'alarm' in any case of the letters.           *)
IsAlarm(details) ==
    \/ ~details.given
    \/ ~details.has_state
    \/ details.state \in {"alarm", "ALARM", "Alarm"}

(* The resources of the stack whose physical id is the InstanceId. *)
Known(r) == {i \in DOMAIN r.stack : r.stack[i].resource_id = r.InstanceId}

(* C38: handle_signal calls stack.restart_resource once, for a resource   *)
(* of the stack whose resource_id equals the InstanceId property, if and  *)
(* only if the signalled state is 'alarm' (in any case; no details or no  *)
(* state count as 'alarm') and there is such a resource; otherwise it     *)
(* restarts nothing, and it never raises.                                 *)
C38_RestartOnAlarm ==
    (restarter # << >> /\ restarter.signals > 0)
    => /\ restarter.raised = None
       /\ IF IsAlarm(restarter.details) /\ Known(restarter) # {}
          THEN /\ Len(restarter.restarted) = 1
               /\ \E i \in Known(restarter) :
                     restarter.restarted[1] = restarter.stack[i].name
          ELSE restarter.restarted = << >>

C38_Witness ==
    /\ restarter # << >>
    /\ restarter.signals = 2
    /\ restarter.details = [given |-> TRUE, has_state |-> TRUE,
                            state |-> "ALARM"]
    /\ restarter.InstanceId = "i-2"
    /\ Len(restarter.stack) = 2
    /\ restarter.stack[2].resource_id = "i-2"
    /\ restarter.restarted = <<restarter.stack[2].name>>

(* ---------------------------------------------------------------------- *)
(* The client accessors of OpenStackClients (clients.py:51-169) and of    *)
(* Resource (resource.py:111-133, 182-316): keystone(), nova(type),       *)
(* swift(), quantum() and cinder() construct a client on demand and keep  *)
(* it.                                                                    *)

MaxClientCalls == 3

ClientKeys ==
    {"keystone", "nova:compute", "nova:volume", "swift", "quantum", "cinder"}

(* A client is the n-th one constructed for its service; NoClient is the  *)
(* None of an empty cache and of a refused call.                          *)
NoClient == [service |-> "None", n |-> 0]

ErrAuthorizationFailure == "AuthorizationFailure"
ErrNoQuantumCache == "object has no attribute '_quantum'"

(* What a call did: it returned a client or None, or it raised. *)
ClientReturns(c, client) ==
    [c EXCEPT !.last = [kind |-> "return", client |-> client, err |-> ""]]
ClientRaises(c, err) ==
    [c EXCEPT !.last = [kind |-> "raise", client |-> NoClient, err |-> err]]

(* A client of the service is constructed and kept under the key. *)
construct(c, key) ==
    LET client == [service |-> key, n |-> c.made[key] + 1]
    IN  [c EXCEPT !.made[key] = @ + 1, !.cache[key] = client]

(* OpenStackClients.keystone, clients.py:64-69; hkc.KeystoneClient wants  *)
(* a password or a token in the context.                                  *)
OpenStackClients_keystone(c) ==
    IF c.cache["keystone"] # NoClient
    THEN ClientReturns(c, c.cache["keystone"])
    ELSE IF c.password \/ c.auth_token
    THEN LET d == construct(c, "keystone")
         IN  ClientReturns(d, d.cache["keystone"])
    ELSE ClientRaises(c, ErrAuthorizationFailure)

(* The body of an accessor of OpenStackClients after its import check:    *)
(* the cache, the token, url_for() through keystone(), the constructor.   *)
OpenStackClients_client(c, key) ==
    IF c.cache[key] # NoClient THEN ClientReturns(c, c.cache[key])
    ELSE IF ~c.auth_token THEN ClientReturns(c, NoClient)
    ELSE LET k == OpenStackClients_keystone(c)
         IN  IF k.last.kind = "raise" THEN k
             ELSE LET d == construct(k, key)
                  IN  ClientReturns(d, d.cache[key])

(* OpenStackClients.nova, clients.py:74-98. *)
OpenStackClients_nova(c, service_type) ==
    OpenStackClients_client(c, "nova:" \o service_type)

(* OpenStackClients.swift, clients.py:100-121. *)
OpenStackClients_swift(c) ==
    IF "swift" \notin c.installed THEN ClientReturns(c, NoClient)
    ELSE OpenStackClients_client(c, "swift")

(* OpenStackClients.quantum, clients.py:123-143. *)
OpenStackClients_quantum(c) ==
    IF "quantum" \notin c.installed THEN ClientReturns(c, NoClient)
    ELSE OpenStackClients_client(c, "quantum")

(* OpenStackClients.cinder, clients.py:145-169. *)
OpenStackClients_cinder(c) ==
    IF "cinder" \notin c.installed THEN OpenStackClients_nova(c, "volume")
    ELSE OpenStackClients_client(c, "cinder")

(* Resource.keystone, resource.py:182-209. *)
Resource_keystone(c) ==
    IF c.cache["keystone"] # NoClient
    THEN ClientReturns(c, c.cache["keystone"])
    ELSE IF c.password \/ c.auth_token
    THEN LET d == construct(c, "keystone")
         IN  ClientReturns(d, d.cache["keystone"])
    ELSE ClientReturns(c, NoClient)

(* Resource.nova, resource.py:211-250. *)
Resource_nova(c, service_type) ==
    LET key == "nova:" \o service_type
    IN  IF c.cache[key] # NoClient THEN ClientReturns(c, c.cache[key])
        ELSE IF c.password \/ c.auth_token
        THEN LET d == construct(c, key)
             IN  ClientReturns(d, d.cache[key])
        ELSE ClientReturns(c, NoClient)

(* Resource.swift, resource.py:252-289: with a token alone the endpoint   *)
(* of the object store is looked up through keystone().                   *)
Resource_swift(c) ==
    IF "swift" \notin c.installed THEN ClientReturns(c, NoClient)
    ELSE IF c.cache["swift"] # NoClient
    THEN ClientReturns(c, c.cache["swift"])
    ELSE IF c.password
    THEN LET d == construct(c, "swift")
         IN  ClientReturns(d, d.cache["swift"])
    ELSE IF c.auth_token
    THEN LET k == Resource_keystone(c)
         IN  IF c.endpoints = 1
             THEN LET d == construct(k, "swift")
                  IN  ClientReturns(d, d.cache["swift"])
             ELSE ClientReturns(k, NoClient)
    ELSE ClientReturns(c, NoClient)

(* Resource.quantum, resource.py:291-316: __init__ (111-133) sets _nova,  *)
(* _keystone and _swift but no _quantum, which line 294 reads.            *)
Resource_quantum(c) ==
    IF "quantum" \notin c.installed THEN ClientReturns(c, NoClient)
    ELSE IF ~c.has_quantum THEN ClientRaises(c, ErrNoQuantumCache)
    ELSE IF c.cache["quantum"] # NoClient
    THEN ClientReturns(c, c.cache["quantum"])
    ELSE IF c.password \/ c.auth_token
    THEN LET d == construct(c, "quantum")
         IN  ClientReturns(d, d.cache["quantum"])
    ELSE ClientReturns(c, NoClient)

(* The accessor is called: method names the accessor and, for nova, the   *)
(* service type; the state before the call is kept for comparison.       *)
accessor(c, method, r) ==
    [r EXCEPT !.ncalls = @ + 1,
              !.method = method,
              !.returned[method] =
                  IF r.last.kind = "return" /\ r.last.client # NoClient
                  THEN r.last.client ELSE @]

Keystone ==
    /\ clients # << >>
    /\ clients.ncalls < MaxClientCalls
    /\ clients' = accessor(clients, "keystone",
                           IF clients.cls = "Resource"
                           THEN Resource_keystone(clients)
                           ELSE OpenStackClients_keystone(clients))
    /\ UNCHANGED <<runner, group, replacement, adapter, restarter, stackvars>>
    /\ UNCHANGED <<kind, env, rsrc, db, nova, quantum, call, last, nops>>

Nova ==
    /\ clients # << >>
    /\ clients.ncalls < MaxClientCalls
    /\ \E service_type \in {"compute", "volume"} :
          clients' = accessor(clients, "nova:" \o service_type,
                              IF clients.cls = "Resource"
                              THEN Resource_nova(clients, service_type)
                              ELSE OpenStackClients_nova(clients, service_type))
    /\ UNCHANGED <<runner, group, replacement, adapter, restarter, stackvars>>
    /\ UNCHANGED <<kind, env, rsrc, db, nova, quantum, call, last, nops>>

Swift ==
    /\ clients # << >>
    /\ clients.ncalls < MaxClientCalls
    /\ clients' = accessor(clients, "swift",
                           IF clients.cls = "Resource"
                           THEN Resource_swift(clients)
                           ELSE OpenStackClients_swift(clients))
    /\ UNCHANGED <<runner, group, replacement, adapter, restarter, stackvars>>
    /\ UNCHANGED <<kind, env, rsrc, db, nova, quantum, call, last, nops>>

Quantum ==
    /\ clients # << >>
    /\ clients.ncalls < MaxClientCalls
    /\ clients' = accessor(clients, "quantum",
                           IF clients.cls = "Resource"
                           THEN Resource_quantum(clients)
                           ELSE OpenStackClients_quantum(clients))
    /\ UNCHANGED <<runner, group, replacement, adapter, restarter, stackvars>>
    /\ UNCHANGED <<kind, env, rsrc, db, nova, quantum, call, last, nops>>

Cinder ==
    /\ clients # << >>
    /\ clients.cls = "OpenStackClients"
    /\ clients.ncalls < MaxClientCalls
    /\ clients' = accessor(clients, "cinder", OpenStackClients_cinder(clients))
    /\ UNCHANGED <<runner, group, replacement, adapter, restarter, stackvars>>
    /\ UNCHANGED <<kind, env, rsrc, db, nova, quantum, call, last, nops>>

(* A newly constructed OpenStackClients or Resource: the context has a    *)
(* password, a token, both or neither; the client libraries that are      *)
(* optional are installed or not.                                         *)
InitClients ==
    /\ \E cls \in {"OpenStackClients", "Resource"},
          password \in BOOLEAN, auth_token \in BOOLEAN,
          installed \in SUBSET {"swift", "quantum", "cinder"},
          endpoints \in 0..1 :
          /\ cls = "Resource" => "cinder" \notin installed
          /\ clients = [cls |-> cls, password |-> password,
                        auth_token |-> auth_token, installed |-> installed,
                        endpoints |-> endpoints,
                        has_quantum |-> cls = "OpenStackClients",
                        cache |-> [k \in ClientKeys |-> NoClient],
                        made |-> [k \in ClientKeys |-> 0],
                        returned |-> [k \in ClientKeys |-> NoClient],
                        ncalls |-> 0, method |-> "none",
                        last |-> [kind |-> "return", client |-> NoClient,
                                  err |-> ""]]
    /\ runner = << >>
    /\ group = << >>
    /\ replacement = << >>
    /\ adapter = << >>
    /\ restarter = << >>
    /\ resources = << >>
    /\ graph = NoGraph
    /\ order = << >>
    /\ states = << >>
    /\ run = NoRun
    /\ NoResource

NextClients == Keystone \/ Nova \/ Swift \/ Quantum \/ Cinder

SpecClients == InitClients /\ [][NextClients]_vars

(* An accessor was called. *)
Accessed == clients # << >> /\ clients'.ncalls = clients.ncalls + 1

(* The context has what the class asks for: the token for                 *)
(* OpenStackClients, a password or the token for a Resource.              *)
ValidCredentials(c) ==
    IF c.cls = "OpenStackClients" THEN c.auth_token
    ELSE c.password \/ c.auth_token

(* The library of the accessor is installed (cinder falls back on nova)   *)
(* and the catalog has the one endpoint swift needs.                      *)
Available(c, method) ==
    /\ method \in {"swift", "quantum"} => method \in c.installed
    /\ c.endpoints = 1

(* C39: every accessor constructs at most one client per service and     *)
(* returns the client it returned before on every later call; the first  *)
(* call on a new object with valid credentials returns a client and does *)
(* not raise; a call without auth_token (OpenStackClients), or without   *)
(* password and auth_token (Resource), returns None and caches nothing.  *)
C39_LazyClients ==
    [][ Accessed
        => LET m == clients'.method
           IN  /\ \A k \in ClientKeys : clients'.made[k] <= 1
               /\ clients.returned[m] # NoClient
                  => /\ clients'.last.kind = "return"
                     /\ clients'.last.client = clients.returned[m]
               /\ (/\ clients.ncalls = 0
                   /\ ValidCredentials(clients)
                   /\ Available(clients, m))
                  => /\ clients'.last.kind = "return"
                     /\ clients'.last.client # NoClient
               /\ ~ValidCredentials(clients)
                  => /\ clients'.last.kind = "return"
                     /\ clients'.last.client = NoClient
                     /\ clients'.cache = clients.cache
      ]_vars

====
